---------------------------- MODULE Spec2Model ----------------------------
(***************************************************************************)
(* Model of the summarisation service worker                               *)
(* (src/background/service-worker.js): the exhaustion tracker, the chunk   *)
(* splitter, the request executor with its error classifier, and the       *)
(* fallback state machine of handleSummarize.                              *)
(*                                                                         *)
(* Conventions.                                                            *)
(*  - A JavaScript string that the code inspects character by character    *)
(*    (page text, model output) is a sequence of one-character strings.    *)
(*  - An error message is a sequence of phrases; String.includes on it is  *)
(*    decided by NeedlesIn, the table of the needles each phrase contains. *)
(*  - chrome.storage.local serves its operations in the order they are     *)
(*    issued, so an operation takes effect where it is issued and only its *)
(*    completion (callback / promise) is a later step.                     *)
(*  - The UTC date string new Date().toUTCString()...join(' ') is the      *)
(*    number of the UTC day, utcDay.                                       *)
(***************************************************************************)
EXTENDS Integers, Sequences, FiniteSets, TLC

(***************************************************************************)
(* Bounds of the model.                                                    *)
(***************************************************************************)
\* Days the clock can advance through: 0 .. MaxDay.
MaxDay == 1
\* Stand-in for CONFIG.CHUNK_SIZE (1500 in the source), scaled down so that
\* texts of a few characters exercise both the full and the chunk path.
ChunkBudget == 4

\* Texts given to splitIntoChunks on its own have at most MaxLen characters,
\* and the chunk sizes tried with them are 1 .. MaxBudget.
MaxLen == 6
MaxBudget == 5

\* The calls of one attempt are counted up to MaxCalls.
MaxCalls == 9

(***************************************************************************)
(* CONFIG and the catalogue.                                               *)
(***************************************************************************)
CHUNK_SIZE == ChunkBudget
MAX_RETRIES == 1
\* Milliseconds.
DELAY_BETWEEN_CHUNKS == 4000
RETRY_BASE_DELAY == 3000

FREE_MODELS ==
    << "google/gemini-2.0-flash-exp:free",
       "meta-llama/llama-3.3-70b-instruct:free",
       "deepseek/deepseek-r1:free",
       "qwen/qwen-2.5-coder-32b-instruct:free",
       "cognitivecomputations/dolphin-mistral-24b-venice-edition:free" >>

FreeModelSet == { FREE_MODELS[k] : k \in DOMAIN FREE_MODELS }

\* A JavaScript null / undefined / '' in a place that holds a string atom.
Absent == "<absent>"
\* The stored day stamp when storage has no exhaustedModelsDate.
NoDate == -1

\* Array.prototype.indexOf on FREE_MODELS, 0-based, -1 when not found.
IndexOfModel(m) ==
    IF m \in FreeModelSet
    THEN (CHOOSE k \in DOMAIN FREE_MODELS : FREE_MODELS[k] = m) - 1
    ELSE -1

(***************************************************************************)
(* Strings as sequences of characters.                                     *)
(***************************************************************************)
IsSpace(c) == c \in {" ", "\n"}

Max(S) == CHOOSE x \in S : \A y \in S : y <= x

\* A trim that removes nothing.
TrimNothing(s) == s

\* String.prototype.trim
Trim(s) ==
    LET keep == { k \in DOMAIN s : ~IsSpace(s[k]) }
    IN  IF keep = {} THEN << >>
        ELSE SubSeq(s, CHOOSE k \in keep : \A j \in keep : k <= j, Max(keep))

\* String.prototype.lastIndexOf for a two-character pattern; 0-based, -1 if none.
LastIndexOf2(s, a, b) ==
    Max({-1} \cup { k - 1 : k \in { j \in 1 .. (Len(s) - 1) : s[j] = a /\ s[j + 1] = b } })

\* String.prototype.lastIndexOf for a one-character pattern.
LastIndexOf1(s, a) ==
    Max({-1} \cup { k - 1 : k \in { j \in DOMAIN s : s[j] = a } })

\* String.prototype.substring(from) and substring(0, to), 0-based.
\* A substring(from) that starts one character late.
SubstringFromLate(s, from) == SubSeq(s, from + 2, Len(s))

SubstringFrom(s, from) == SubSeq(s, from + 1, Len(s))
SubstringTo(s, to) == SubSeq(s, 1, IF to < Len(s) THEN to ELSE Len(s))

\* A cut one character past the chunk size.
BreakPointOver(remaining, chunkSize) == chunkSize + 1

\* A cut at half the chunk size.
BreakPointHalf(remaining, chunkSize) == (chunkSize + 1) \div 2

\* A cut at position 0: nothing is taken off the remaining text.
BreakPointZero(remaining, chunkSize) == 0

\* The cut position chosen for a remaining text longer than chunkSize.
BreakPoint(remaining, chunkSize) ==
    LET chunk == SubstringTo(remaining, chunkSize)
        lastPeriod == Max({ LastIndexOf2(chunk, ".", " "),
                            LastIndexOf2(chunk, "!", " "),
                            LastIndexOf2(chunk, "?", " "),
                            LastIndexOf2(chunk, ".", "\n"),
                            LastIndexOf2(chunk, "\n", "\n") })
        lastSpace == LastIndexOf1(chunk, " ")
    IN  IF 2 * lastPeriod > chunkSize THEN lastPeriod + 1
        ELSE IF 2 * lastSpace > chunkSize THEN lastSpace + 1
        ELSE chunkSize

RECURSIVE SplitLoop(_, _, _)
SplitLoop(remaining, chunkSize, chunks) ==
    IF Len(remaining) = 0 THEN chunks
    ELSE IF Len(remaining) <= chunkSize THEN Append(chunks, Trim(remaining))
    ELSE LET bp == BreakPoint(remaining, chunkSize)
         IN  SplitLoop(Trim(SubstringFrom(remaining, bp)), chunkSize,
                       Append(chunks, Trim(SubstringTo(remaining, bp))))

splitIntoChunks(text, chunkSize) == SplitLoop(text, chunkSize, << >>)

\* Array.prototype.join on an array of strings.
RECURSIVE Join(_, _)
Join(parts, sep) ==
    IF Len(parts) = 0 THEN << >>
    ELSE IF Len(parts) = 1 THEN parts[1]
    ELSE parts[1] \o sep \o Join(Tail(parts), sep)


(***************************************************************************)
(* Error messages.                                                         *)
(***************************************************************************)
\* The substrings the code searches for that occur in each phrase
\* (String.includes is case-sensitive: 'Daily limit' has no 'daily limit').
NeedlesIn(phrase) ==
    CASE phrase = "Rate limit hit" -> {"Rate limit"}
      [] phrase = "API error: 429" -> {"429"}
      [] phrase = "Failed to fetch" -> {"Failed to fetch"}
      [] phrase = "Rate limit exceeded: free-models-per-day" ->
             {"Rate limit", "free-models-per-day"}
      [] phrase = "model is temporarily rate-limited upstream" ->
             {"temporarily rate-limited"}
      [] phrase = "x is not a valid model ID" -> {"not a valid model"}
      [] phrase = "Provider resources exhausted" -> {"exhausted"}
      [] OTHER -> {}

\* String.prototype.includes on a message.
Includes(message, needle) ==
    \E k \in DOMAIN message : needle \in NeedlesIn(message[k])

\* The error.message texts a provider puts in an error body ("" when the body
\* has none, e.g. a body that is not JSON).
RawMessages ==
    { "",
      "Rate limit exceeded: free-models-per-day",
      "model is temporarily rate-limited upstream",
      "Too many requests",
      "x is not a valid model ID",
      "Provider resources exhausted" }

\* An error body: readable is FALSE when response.text() rejects or the parsed
\* body is not an object (the property reads throw); remainingZero is
\* metadata.headers['X-RateLimit-Remaining'] === '0'.
ErrorBodies ==
    [readable : {TRUE}, rawMessage : RawMessages, remainingZero : {FALSE}]
    \cup { [readable |-> TRUE, rawMessage |-> "Too many requests", remainingZero |-> TRUE],
           [readable |-> FALSE, rawMessage |-> "", remainingZero |-> FALSE] }

Statuses == {400, 401, 402, 429, 500, 502, 503}
\* The statuses for which handleApiError looks at the text of the body, and the
\* bodies that stand for all of them under the other statuses.
BodyStatuses == {400, 429, 500}
PlainBodies == { b \in ErrorBodies : b.rawMessage = "" }

(***************************************************************************)
(* Error Classifier.                                                       *)
(***************************************************************************)
handleApiError(response, model) ==
    LET status == response.status
        rawMessage == response.body.rawMessage
        dflt == [message |-> <<"API error: " \o ToString(status)>>,
                 shouldRetry |-> FALSE, isRateLimited |-> FALSE]
    IN  IF ~response.body.readable THEN dflt
        ELSE IF status = 429 THEN
            IF \/ "free-models-per-day" \in NeedlesIn(rawMessage)
               \/ response.body.remainingZero
            THEN [message |-> <<"Daily limit reached for ", model>>,
                  shouldRetry |-> FALSE, isRateLimited |-> TRUE]
            ELSE IF "temporarily rate-limited" \in NeedlesIn(rawMessage)
            THEN [message |-> <<model, " temporarily busy">>,
                  shouldRetry |-> TRUE, isRateLimited |-> TRUE]
            ELSE [message |-> <<"Rate limit hit">>,
                  shouldRetry |-> FALSE, isRateLimited |-> TRUE]
        ELSE IF status = 503 \/ status = 502 THEN
            [message |-> <<"Server temporarily unavailable">>,
             shouldRetry |-> TRUE, isRateLimited |-> FALSE]
        ELSE IF status = 401 THEN
            [message |-> <<"Invalid API key. Please check your OpenRouter API key.">>,
             shouldRetry |-> FALSE, isRateLimited |-> FALSE]
        ELSE IF status = 402 THEN
            [message |-> <<"Insufficient credits. Add credits to OpenRouter.">>,
             shouldRetry |-> FALSE, isRateLimited |-> FALSE]
        ELSE IF status = 400 THEN
            IF "not a valid model" \in NeedlesIn(rawMessage)
            THEN [message |-> <<"Invalid model: ", model>>,
                  shouldRetry |-> FALSE, isRateLimited |-> FALSE]
            ELSE [message |-> IF rawMessage # "" THEN <<rawMessage>> ELSE <<"Bad request">>,
                  shouldRetry |-> FALSE, isRateLimited |-> FALSE]
        ELSE [message |-> IF rawMessage # "" THEN <<rawMessage>> ELSE dflt.message,
              shouldRetry |-> FALSE, isRateLimited |-> FALSE]

(***************************************************************************)
(* Request Executor: what makeApiRequest does with the outcome of fetch.   *)
(***************************************************************************)
\* Texts a model can return in choices[0].message.content.
Contents ==
    { <<" ">>,
      <<" ", "s", "s", " ">> }

\* What one fetch can come to.
FetchOutcomes ==
    [kind : {"abort", "fetchfail", "badjson"}]
    \cup [kind : {"http"}, status : BodyStatuses, body : ErrorBodies]
    \cup [kind : {"http"}, status : Statuses \ BodyStatuses, body : PlainBodies]
    \cup [kind : {"ok"}, hasContent : {FALSE}]
    \cup [kind : {"ok"}, hasContent : {TRUE}, content : Contents \cup {<< >>}]

NewError(message) == [name |-> "Error", message |-> message, isRateLimited |-> FALSE]

\* The catch block rethrowing every error as it caught it.
RequestCatchRethrow(error) == error

\* The catch block of makeApiRequest (lines 509-520).
RequestCatch(error) ==
    IF error.name = "AbortError"
    THEN NewError(<<"Request timed out. Please try again.">>)
    ELSE IF Includes(error.message, "Failed to fetch")
    THEN NewError(<<"Network error. Check your connection.">>)
    ELSE error

\* makeApiRequest retrying once after any error response, retryable or not.
makeApiRequestRetryAny(outcome, model, retryCount) ==
    IF outcome.kind = "http" /\ retryCount < MAX_RETRIES
    THEN [kind |-> "retry", retryCount |-> retryCount + 1]
    ELSE [kind |-> "throw", error |-> NewError(<<"Invalid response from API">>)]

\* makeApiRequest whose recursive call passes retryCount on unchanged.
makeApiRequestSameCount(outcome, model, retryCount) ==
    IF outcome.kind = "http" /\ handleApiError(outcome, model).shouldRetry
    THEN [kind |-> "retry", retryCount |-> retryCount]
    ELSE [kind |-> "throw", error |-> NewError(<<"Invalid response from API">>)]

\* makeApiRequest from the settled fetch to its next suspension or its end:
\* [kind |-> "retry", retryCount |-> n] (it waits RETRY_BASE_DELAY and calls
\* itself with retryCount n),
\* [kind |-> "throw", error |-> e] or [kind |-> "return", summary |-> text].
makeApiRequest(outcome, model, retryCount) ==
    CASE outcome.kind = "abort" ->
            [kind |-> "throw",
             error |-> RequestCatch([name |-> "AbortError",
                                     message |-> <<"The user aborted a request.">>,
                                     isRateLimited |-> FALSE])]
      [] outcome.kind = "fetchfail" ->
            [kind |-> "throw",
             error |-> RequestCatch([name |-> "TypeError",
                                     message |-> <<"Failed to fetch">>,
                                     isRateLimited |-> FALSE])]
      [] outcome.kind = "badjson" ->
            [kind |-> "throw",
             error |-> RequestCatch([name |-> "SyntaxError",
                                     message |-> <<"Unexpected token in JSON">>,
                                     isRateLimited |-> FALSE])]
      [] outcome.kind = "http" ->
            LET errorInfo == handleApiError(outcome, model)
            IN  IF errorInfo.shouldRetry /\ retryCount < MAX_RETRIES
                THEN [kind |-> "retry", retryCount |-> retryCount + 1]
                ELSE [kind |-> "throw",
                      error |-> RequestCatch([name |-> "Error",
                                              message |-> errorInfo.message,
                                              isRateLimited |-> errorInfo.isRateLimited])]
      [] outcome.kind = "ok" ->
            IF ~outcome.hasContent \/ outcome.content = << >>
            THEN [kind |-> "throw",
                  error |-> RequestCatch(NewError(<<"Invalid response from API">>))]
            ELSE [kind |-> "return", summary |-> Trim(outcome.content)]


(***************************************************************************)
(* State.                                                                  *)
(***************************************************************************)
\* Slots for summarize invocations that can be in progress at once.
Invs == {1, 2}
\* The slot used when one invocation runs alone.
Solo == {1}

VARIABLES
    utcDay,           \* the current UTC day (what the date expression evaluates to)
    exhaustedModels,  \* the in-memory Set exhaustedModels
    lastResetDate,    \* the in-memory day stamp lastResetDate
    stored,           \* chrome.storage.local: exhaustedModels, exhaustedModelsDate
    boot,             \* the loadExhaustedModels() call made when the worker starts
    inv,              \* the handleSummarize invocations, by slot
    statusReply,      \* the reply to the getModelStatus message just handled
    markedToday,      \* history: the models markModelExhausted was called for on utcDay
    storageQueue,     \* chrome.storage.local operations awaiting their callback, oldest
                      \* first: the slot of the invocation that issued each, 0 for
                      \* the startup load
    split,            \* a call of splitIntoChunks, iteration by iteration
    classified,       \* a call of handleApiError and what it returned
    info,             \* a call of getModelInfo and what it returned
    outbound,         \* a call of makeApiRequest up to the request body it sends
    popup             \* the popup: isProcessing, the button, its handleSummarize

vars == <<utcDay, exhaustedModels, lastResetDate, stored, boot, inv, statusReply, markedToday,
         storageQueue, split, classified, info, outbound, popup>>

\* The service worker's globals, gathered so that helpers can update them.
Globals == [exhaustedModels |-> exhaustedModels,
            lastResetDate |-> lastResetDate,
            stored |-> stored]

NoModels == [hasModels |-> FALSE, models |-> {}]

(***************************************************************************)
(* Exhaustion Tracker.                                                     *)
(***************************************************************************)
checkDailyReset(g, currentDate) ==
    IF currentDate # g.lastResetDate
    THEN [g EXCEPT !.exhaustedModels = {},
                   !.lastResetDate = currentDate,
                   !.stored = [@ EXCEPT !.hasModels = FALSE, !.models = {}]]
    ELSE g

\* The callback of chrome.storage.local.get in loadExhaustedModels; result is
\* what the get read.
loadExhaustedModels(g, result, currentDate) ==
    [g EXCEPT !.exhaustedModels =
                  IF result.date = currentDate /\ result.hasModels
                  THEN result.models ELSE {},
              !.lastResetDate = currentDate]

\* ok: whether chrome.storage.local.set succeeds (its promise rejects otherwise).
saveExhaustedModels(g, currentDate, ok) ==
    IF ok
    THEN [g EXCEPT !.stored = [hasModels |-> TRUE,
                               models |-> g.exhaustedModels,
                               date |-> currentDate]]
    ELSE g

\* markModelExhausted up to the await of the storage write.
markModelExhausted(g, modelId, currentDate, ok) ==
    saveExhaustedModels([g EXCEPT !.exhaustedModels = @ \cup {modelId}],
                        currentDate, ok)

\* The round-robin search of getNextAvailableModel; Absent stands for null.
RECURSIVE NextFrom(_, _, _)
NextFrom(exhausted, currentIndex, i) ==
    IF i > Len(FREE_MODELS) THEN Absent
    ELSE LET nextModel == FREE_MODELS[((currentIndex + i) % Len(FREE_MODELS)) + 1]
         IN  IF nextModel \notin exhausted THEN nextModel
             ELSE NextFrom(exhausted, currentIndex, i + 1)

getNextAvailableModel(g, currentModel, currentDate) ==
    LET g1 == checkDailyReset(g, currentDate)
    IN  [g |-> g1,
         model |-> NextFrom(g1.exhaustedModels, IndexOfModel(currentModel), 1)]

RECURSIVE FirstFrom(_, _)
FirstFrom(exhausted, k) ==
    IF k > Len(FREE_MODELS) THEN Absent
    ELSE IF FREE_MODELS[k] \notin exhausted THEN FREE_MODELS[k]
    ELSE FirstFrom(exhausted, k + 1)

\* getFirstAvailableModel without the test of the exhaustion set.
getFirstAvailableModelAny(g, currentDate) ==
    [g |-> checkDailyReset(g, currentDate), model |-> FREE_MODELS[1]]

getFirstAvailableModel(g, currentDate) ==
    LET g1 == checkDailyReset(g, currentDate)
    IN  [g |-> g1, model |-> FirstFrom(g1.exhaustedModels, 1)]

\* The reply to the getModelStatus message.
getModelStatus(g) ==
    [exhaustedModels |-> g.exhaustedModels,
     totalFreeModels |-> Len(FREE_MODELS),
     availableModels |-> SelectSeq(FREE_MODELS, LAMBDA m : m \notin g.exhaustedModels)]


(***************************************************************************)
(* Orchestrator: handleSummarize, cut at its suspension points.            *)
(*                                                                         *)
(* pc of an invocation: "idle" (no request), "loadWait" (awaiting the      *)
(* storage read of loadExhaustedModels), "fetch" (a network call is        *)
(* outstanding), "retryDelay" / "chunkDelay" / "mergeDelay" /              *)
(* "switchDelay" (awaiting delay(...)), "saveWait" (awaiting the storage   *)
(* write of markModelExhausted), "done" (returned).                        *)
(***************************************************************************)
\* Page texts a request can carry.
Texts ==
    { << >>,
      <<" ">>,
      <<"a", "b">>,
      <<"a", "a", "a", "a", " ", "b", "b", "b", "b">> }

\* Page texts longer than CHUNK_SIZE that split into one, two and three chunks.
ChunkTexts ==
    { <<"a", "a", "a", "a", " ", " ">>,
      <<"a", "a", "a", "a", " ", "b", "b", "b", "b">>,
      <<"a", "a", "a", "a", " ", "b", "b", "b", "b", " ", "c", "c", "c", "c">> }

\* A model identifier outside the free catalogue.
CustomModel == "openai/gpt-4o-mini"

Requests ==
    [hasText : {TRUE}, text : Texts,
     apiKey : {Absent, "sk-or-v1-key"},
     customCode : {Absent, CustomModel, FREE_MODELS[3]}]
    \cup [hasText : {FALSE}, text : {<< >>},
          apiKey : {"sk-or-v1-key"}, customCode : {Absent}]

NoRequest == [hasText |-> FALSE, text |-> << >>, apiKey |-> Absent, customCode |-> Absent]
NoResponse == [success |-> FALSE, error |-> << >>]

IdleInv ==
    [pc |-> "idle", request |-> NoRequest, loaded |-> [hasModels |-> FALSE, models |-> {}, date |-> NoDate],
     isUsingFreeModels |-> FALSE, model |-> Absent, actualModel |-> Absent,
     attempts |-> 0, maxAttempts |-> 0,
     i |-> 0, summaries |-> << >>, merging |-> FALSE, retryCount |-> 0,
     saveOk |-> TRUE, sent |-> 0, response |-> NoResponse,
     tried |-> << >>,  \* history: [model, day] of every attempt started
     outstanding |-> 0,  \* network calls issued and not yet settled
     calls |-> 0]        \* network calls issued in the attempt under way

\* Two fetches issued at once.
IssueTwo(st) ==
    [st EXCEPT !.pc = "fetch", !.outstanding = @ + 2,
               !.calls = IF @ + 1 < MaxCalls THEN @ + 2 ELSE MaxCalls]

\* makeApiRequest issues its fetch and awaits it (line 458).
Issue(st) ==
    [st EXCEPT !.pc = "fetch", !.outstanding = @ + 1,
               !.calls = IF @ < MaxCalls THEN @ + 1 ELSE MaxCalls]

\* The awaited fetch settled.
Settle(st) == [st EXCEPT !.outstanding = @ - 1]

\* sendResponse(r)
Respond(st, r) == [st EXCEPT !.sent = @ + 1, !.response = r]

\* return from handleSummarize: the locals of the attempt are dropped.
Return(st) ==
    [st EXCEPT !.pc = "done", !.loaded = IdleInv.loaded, !.i = 0, !.summaries = << >>,
               !.merging = FALSE, !.retryCount = 0, !.saveOk = TRUE, !.calls = 0]

Failure(message) == [success |-> FALSE, error |-> message]

AllExhaustedAtEntry ==
    << "All free models exhausted for today!",
       "Options: wait until midnight UTC for reset, add credits to OpenRouter, use a paid model" >>

AllExhaustedAfter(size) ==
    << "All free models exhausted for today!",
       "Tried ", ToString(size), " models.",
       "Options: wait until midnight UTC, add credits to OpenRouter, use a paid model" >>

\* The outer catch answering with the default text whatever the error says.
OuterCatchGeneric(st, error) ==
    Return(Respond(st, Failure(<<"Failed to summarize content">>)))

\* The outer catch (lines 324-330).
OuterCatch(st, error) ==
    Return(Respond(st, Failure(IF error.message # << >> THEN error.message
                               ELSE <<"Failed to summarize content">>)))

\* Lines 318-322.
FallThrough(st) ==
    Return(Respond(st, Failure(<<"Failed to summarize after trying all available models.">>)))

\* An orchestrator that never takes the chunk path.
IsChunkedNever(st) == FALSE

IsChunked(st) == Len(st.request.text) > CHUNK_SIZE
\* splitIntoChunks(text) for the texts a request can carry, computed once.
ChunkTable == [text \in Texts \cup ChunkTexts |-> splitIntoChunks(text, CHUNK_SIZE)]
ChunksOf(st) == ChunkTable[st.request.text]

\* An attempt that goes on from the chunk summaries of the attempt before it.
StartAttemptKeepsSummaries(st, currentDate) ==
    LET st1 == [st EXCEPT !.attempts = @ + 1,
                          !.tried = Append(@, [model |-> st.actualModel, day |-> currentDate]),
                          !.retryCount = 0, !.calls = 0]
    IN  IF IsChunked(st) /\ Len(ChunksOf(st)) = 0
        THEN [st1 EXCEPT !.pc = "mergeDelay"]
        ELSE Issue(st1)

\* The body of the while loop up to the first suspension of the attempt
\* (lines 245-257, 374-390): the first network call is issued.
StartAttempt(st, currentDate) ==
    LET st1 == [st EXCEPT !.attempts = @ + 1,
                          !.tried = Append(@, [model |-> st.actualModel, day |-> currentDate]),
                          !.i = 0, !.summaries = << >>, !.merging = FALSE,
                          !.retryCount = 0, !.calls = 0]
    IN  IF IsChunked(st) /\ Len(ChunksOf(st)) = 0
        THEN [st1 EXCEPT !.pc = "mergeDelay"]
        ELSE Issue(st1)

\* The loop condition (line 244).
LoopHead(st, currentDate) ==
    IF st.attempts < st.maxAttempts THEN StartAttempt(st, currentDate) ELSE FallThrough(st)

\* Success with `break` in place of `return`: the code after the loop runs too.
SuccessThenFallThrough(st, summary, chunksUsed) ==
    FallThrough(Respond(st, [success |-> TRUE,
                             summary |-> summary,
                             modelInfo |-> [id |-> st.actualModel,
                                            chunksUsed |-> chunksUsed,
                                            fallbackUsed |-> st.actualModel # st.model]]))

\* Success reporting the model selected at entry in place of the one used.
SuccessReportsSelected(st, summary, chunksUsed) ==
    Return(Respond(st, [success |-> TRUE,
                        summary |-> summary,
                        modelInfo |-> [id |-> st.model,
                                       chunksUsed |-> chunksUsed,
                                       fallbackUsed |-> st.actualModel # st.model]]))

\* Lines 260-280: the success response.  summary is [isText, text]: the value
\* is a string, or (isText FALSE) the result object of summarizeWithChunking.
Success(st, summary, chunksUsed) ==
    Return(Respond(st, [success |-> TRUE,
                        summary |-> summary,
                        modelInfo |-> [id |-> st.actualModel,
                                       chunksUsed |-> chunksUsed,
                                       fallbackUsed |-> st.actualModel # st.model]]))

CeilDiv(a, b) == (a + b - 1) \div b

\* Lines 252-254 with the result of summarizeWithChunking.
AfterChunking(st, resSummary, resChunks) ==
    Success(st,
            IF resSummary # << >> THEN [isText |-> TRUE, text |-> resSummary]
            ELSE [isText |-> FALSE, text |-> << >>],
            IF resChunks # 0 THEN resChunks
            ELSE CeilDiv(Len(st.request.text), CHUNK_SIZE))

\* summarizeWithChunking going on to the next call without a delay.
CallReturnedNoDelay(st, summary) ==
    IF ~IsChunked(st) THEN Success(st, [isText |-> TRUE, text |-> summary], 1)
    ELSE IF st.merging THEN AfterChunking(st, summary, Len(ChunksOf(st)))
    ELSE LET summaries == Append(st.summaries, summary)
             st1 == [st EXCEPT !.summaries = summaries, !.i = @ + 1, !.retryCount = 0]
         IN  IF st1.i < Len(ChunksOf(st)) THEN Issue(st1)
             ELSE IF Len(summaries) = 1 THEN AfterChunking(st1, summaries[1], 1)
             ELSE [st1 EXCEPT !.pc = "mergeDelay"]

\* A network call of the attempt returned `summary` (lines 385-396, 411-412, 257).
CallReturned(st, summary) ==
    IF ~IsChunked(st) THEN Success(st, [isText |-> TRUE, text |-> summary], 1)
    ELSE IF st.merging THEN AfterChunking(st, summary, Len(ChunksOf(st)))
    ELSE LET summaries == Append(st.summaries, summary)
             st1 == [st EXCEPT !.summaries = summaries, !.i = @ + 1, !.retryCount = 0]
         IN  IF st1.i < Len(ChunksOf(st)) THEN [st1 EXCEPT !.pc = "chunkDelay"]
             ELSE IF Len(summaries) = 1 THEN AfterChunking(st1, summaries[1], 1)
             ELSE [st1 EXCEPT !.pc = "mergeDelay"]

Separator == <<"\n", "\n", "-", "-", "-", "\n", "\n">>

\* summarizeWithChunking making the merge call however long the joined
\* summaries are.
AfterMergeDelayAlways(st) ==
    Issue([st EXCEPT !.merging = TRUE, !.retryCount = 0])

\* Lines 402-411 after the delay before combining.
AfterMergeDelay(st) ==
    LET combinedText == Join(st.summaries, Separator)
    IN  IF Len(combinedText) > CHUNK_SIZE * 2
        THEN AfterChunking(st, Join(st.summaries, <<"\n", "\n">>), Len(ChunksOf(st)))
        ELSE Issue([st EXCEPT !.merging = TRUE, !.retryCount = 0])

\* Lines 286-290.
IsRateLimit(error) ==
    \/ Includes(error.message, "Rate limit")
    \/ Includes(error.message, "daily limit")
    \/ Includes(error.message, "exhausted")
    \/ Includes(error.message, "429")
    \/ error.isRateLimited

\* ShouldCycle without the test of isUsingFreeModels.
ShouldCycleAnyMode(st, error) == IsRateLimit(error)

\* Line 292: whether the inner catch marks the model and cycles.
ShouldCycle(st, error) == IsRateLimit(error) /\ st.isUsingFreeModels

\* Lines 205-242 after the load: validation and model selection.  Gives the
\* globals and the invocation as they are at the first suspension or return.
Entry(g, st, currentDate) ==
    LET req == st.request
        isUsingFreeModels == req.customCode = Absent \/ req.customCode \in FreeModelSet
        first == getFirstAvailableModel(g, currentDate)
        model == IF req.customCode # Absent THEN req.customCode ELSE first.model
        g1 == IF req.customCode # Absent THEN g ELSE first.g
    IN  IF req.apiKey = Absent
        THEN [g |-> g, st |-> Return(Respond(st, Failure(<<"API key is required">>)))]
        ELSE IF ~req.hasText \/ Len(req.text) = 0 \/ Len(Trim(req.text)) = 0
        THEN [g |-> g, st |-> Return(Respond(st, Failure(<<"No content found on this page.">>)))]
        ELSE IF model = Absent
        THEN [g |-> g1,
              st |-> Return(Respond([st EXCEPT !.isUsingFreeModels = isUsingFreeModels],
                                    Failure(AllExhaustedAtEntry)))]
        ELSE [g |-> g1,
              st |-> LoopHead([st EXCEPT !.isUsingFreeModels = isUsingFreeModels,
                                         !.model = model,
                                         !.actualModel = model,
                                         !.attempts = 0,
                                         !.maxAttempts = IF isUsingFreeModels
                                                         THEN Len(FREE_MODELS) ELSE 1],
                             currentDate)]

\* Lines 296-310 after markModelExhausted returned.
AfterMark(g, st, currentDate) ==
    LET next == getNextAvailableModel(g, st.actualModel, currentDate)
    IN  IF next.model # Absent
        THEN [g |-> next.g, st |-> [st EXCEPT !.actualModel = next.model, !.pc = "switchDelay"]]
        ELSE [g |-> next.g,
              st |-> Return(Respond(st, Failure(AllExhaustedAfter(
                                                  Cardinality(next.g.exhaustedModels)))))]


(***************************************************************************)
(* Initial state: the worker has just started on day 0; storage holds what *)
(* earlier runs on day 0 left (nothing on a fresh install).                *)
(***************************************************************************)
\* No call of splitIntoChunks / handleApiError is being followed.
NoSplit == [pc |-> "none"]
NoClassified == [pc |-> "none"]
NoInfo == [pc |-> "none"]
NoOutbound == [pc |-> "none"]
\* No popup is open.
NoPopup == [pc |-> "closed"]

InitialStores ==
    { [hasModels |-> FALSE, models |-> {}, date |-> NoDate] }
    \cup { [hasModels |-> TRUE, models |-> { FREE_MODELS[k] : k \in 1 .. n }, date |-> 0]
           : n \in {1, 4, 5} }
    \cup { [hasModels |-> TRUE, models |-> { FREE_MODELS[k] : k \in 2 .. n }, date |-> 0]
           : n \in {2, 4} }

Init ==
    /\ utcDay = 0
    /\ exhaustedModels = {}
    /\ lastResetDate = 0
    /\ stored \in InitialStores
    /\ boot = [pc |-> "loading", result |-> stored]
    /\ inv = [i \in Invs |-> IdleInv]
    /\ statusReply = [asked |-> FALSE]
    /\ markedToday = stored.models
    /\ storageQueue = <<0>>
    /\ split = NoSplit
    /\ classified = NoClassified
    /\ info = NoInfo
    /\ outbound = NoOutbound
    /\ popup = NoPopup

SetGlobals(g) ==
    /\ exhaustedModels' = g.exhaustedModels
    /\ lastResetDate' = g.lastResetDate
    /\ stored' = g.stored

NoReply == statusReply' = [asked |-> FALSE]

(***************************************************************************)
(* Environment.                                                            *)
(***************************************************************************)
\* UTC midnight passes.
Tick ==
    /\ utcDay < MaxDay
    /\ utcDay' = utcDay + 1
    /\ markedToday' = {}
    /\ NoReply
    /\ UNCHANGED <<exhaustedModels, lastResetDate, stored, boot, inv, storageQueue, split, classified, info, outbound, popup>>

\* The browser stops the service worker and starts it again: the script's
\* top level runs (lines 30-31, 158); invocations in progress are lost.
Restart ==
    /\ exhaustedModels' = {}
    /\ lastResetDate' = utcDay
    /\ boot' = [pc |-> "loading", result |-> stored]
    /\ inv' = [i \in Invs |-> IdleInv]
    /\ storageQueue' = <<0>>
    /\ NoReply
    /\ UNCHANGED <<utcDay, stored, markedToday, split, classified, info, outbound, popup>>

\* The callback of the startup loadExhaustedModels().
BootLoaded ==
    /\ boot.pc = "loading"
    /\ storageQueue # << >> /\ Head(storageQueue) = 0
    /\ storageQueue' = Tail(storageQueue)
    /\ SetGlobals(loadExhaustedModels(Globals, boot.result, utcDay))
    /\ boot' = [pc |-> "ready", result |-> IdleInv.loaded]
    /\ NoReply
    /\ UNCHANGED <<utcDay, inv, markedToday, split, classified, info, outbound, popup>>

\* onMessage, action 'getModelStatus'.
GetModelStatus ==
    /\ statusReply' = [asked |-> TRUE, day |-> utcDay, reply |-> getModelStatus(Globals)]
    /\ UNCHANGED <<utcDay, exhaustedModels, lastResetDate, stored, boot, inv, markedToday, storageQueue, split, classified, info, outbound, popup>>

(***************************************************************************)
(* handleSummarize.                                                        *)
(***************************************************************************)
\* onMessage, action 'summarize': handleSummarize starts and awaits the load.
Summarize(i, request) ==
    /\ inv[i].pc = "idle"
    /\ inv' = [inv EXCEPT ![i] = [IdleInv EXCEPT !.pc = "loadWait",
                                                 !.request = request,
                                                 !.loaded = stored]]
    /\ storageQueue' = Append(storageQueue, i)
    /\ NoReply
    /\ UNCHANGED <<utcDay, exhaustedModels, lastResetDate, stored, boot, markedToday, split, classified, info, outbound, popup>>

\* The load's callback, then lines 205-257 up to the first network call.  The
\* storage operations issued before this one have had their callbacks.
LoadCallback(i) ==
    /\ inv[i].pc = "loadWait"
    /\ storageQueue # << >> /\ Head(storageQueue) = i
    /\ storageQueue' = Tail(storageQueue)
    /\ LET g1 == loadExhaustedModels(Globals, inv[i].loaded, utcDay)
           r == Entry(g1, [inv[i] EXCEPT !.loaded = IdleInv.loaded], utcDay)
       IN  /\ SetGlobals(r.g)
           /\ inv' = [inv EXCEPT ![i] = r.st]
    /\ NoReply
    /\ UNCHANGED <<utcDay, boot, markedToday, split, classified, info, outbound, popup>>

\* The outstanding fetch settles with `outcome` (lines 481-520, then the
\* caller's continuation: lines 391-396, 260-315).  saveOk: whether the storage
\* write of markModelExhausted succeeds.
FetchSettled(i, outcome) ==
    /\ inv[i].pc = "fetch"
    /\ LET st == Settle(inv[i])
           r == makeApiRequest(outcome, st.actualModel, st.retryCount)
       IN  CASE r.kind = "retry" ->
                  /\ inv' = [inv EXCEPT ![i] = [st EXCEPT !.pc = "retryDelay",
                                                          !.retryCount = r.retryCount]]
                  /\ UNCHANGED <<exhaustedModels, lastResetDate, stored, markedToday,
                                 storageQueue>>
             [] r.kind = "return" ->
                  /\ inv' = [inv EXCEPT ![i] = CallReturned(st, r.summary)]
                  /\ UNCHANGED <<exhaustedModels, lastResetDate, stored, markedToday,
                                 storageQueue>>
             [] r.kind = "throw" ->
                  IF ShouldCycle(st, r.error)
                  THEN \E saveOk \in BOOLEAN :
                       /\ SetGlobals(markModelExhausted(Globals, st.actualModel, utcDay, saveOk))
                       /\ markedToday' = markedToday \cup {st.actualModel}
                       /\ storageQueue' = Append(storageQueue, i)
                       /\ inv' = [inv EXCEPT ![i] = [st EXCEPT !.pc = "saveWait",
                                                               !.saveOk = saveOk,
                                                               !.retryCount = 0,
                                                               !.calls = 0]]
                  ELSE /\ inv' = [inv EXCEPT ![i] = OuterCatch(st, r.error)]
                       /\ UNCHANGED <<exhaustedModels, lastResetDate, stored, markedToday,
                                      storageQueue>>
    /\ NoReply
    /\ UNCHANGED <<utcDay, boot, split, classified, info, outbound, popup>>

\* delay(CONFIG.RETRY_BASE_DELAY) is over: makeApiRequest calls itself.
RetryDelayDone(i) ==
    /\ inv[i].pc = "retryDelay"
    /\ inv' = [inv EXCEPT ![i] = Issue(@)]
    /\ NoReply
    /\ UNCHANGED <<utcDay, exhaustedModels, lastResetDate, stored, boot, markedToday, storageQueue, split, classified, info, outbound, popup>>

\* delay(CONFIG.DELAY_BETWEEN_CHUNKS) before the next chunk is over.
ChunkDelayDone(i) ==
    /\ inv[i].pc = "chunkDelay"
    /\ inv' = [inv EXCEPT ![i] = Issue(@)]
    /\ NoReply
    /\ UNCHANGED <<utcDay, exhaustedModels, lastResetDate, stored, boot, markedToday, storageQueue, split, classified, info, outbound, popup>>

\* delay(CONFIG.DELAY_BETWEEN_CHUNKS) before combining is over.
MergeDelayDone(i) ==
    /\ inv[i].pc = "mergeDelay"
    /\ inv' = [inv EXCEPT ![i] = AfterMergeDelay(inv[i])]
    /\ NoReply
    /\ UNCHANGED <<utcDay, exhaustedModels, lastResetDate, stored, boot, markedToday, storageQueue, split, classified, info, outbound, popup>>

\* The storage write of markModelExhausted settled (lines 294-310).
SaveSettled(i) ==
    /\ inv[i].pc = "saveWait"
    /\ storageQueue # << >> /\ Head(storageQueue) = i
    /\ storageQueue' = Tail(storageQueue)
    /\ IF inv[i].saveOk
       THEN LET r == AfterMark(Globals, inv[i], utcDay)
            IN  /\ SetGlobals(r.g)
                /\ inv' = [inv EXCEPT ![i] = r.st]
       ELSE /\ inv' = [inv EXCEPT ![i] =
                          OuterCatch(inv[i], NewError(<<"QUOTA_BYTES quota exceeded">>))]
            /\ UNCHANGED <<exhaustedModels, lastResetDate, stored>>
    /\ NoReply
    /\ UNCHANGED <<utcDay, boot, markedToday, split, classified, info, outbound, popup>>

\* delay(1000) before the next model is over: continue (line 302).
SwitchDelayDone(i) ==
    /\ inv[i].pc = "switchDelay"
    /\ inv' = [inv EXCEPT ![i] = LoopHead(inv[i], utcDay)]
    /\ NoReply
    /\ UNCHANGED <<utcDay, exhaustedModels, lastResetDate, stored, boot, markedToday, storageQueue, split, classified, info, outbound, popup>>

\* The caller has its response; the slot is free for the next request.
Release(i) ==
    /\ inv[i].pc = "done"
    /\ inv' = [inv EXCEPT ![i] = IdleInv]
    /\ NoReply
    /\ UNCHANGED <<utcDay, exhaustedModels, lastResetDate, stored, boot, markedToday, storageQueue, split, classified, info, outbound, popup>>

Step(i) ==
    \/ LoadCallback(i)
    \/ \E outcome \in FetchOutcomes : FetchSettled(i, outcome)
    \/ RetryDelayDone(i)
    \/ ChunkDelayDone(i)
    \/ MergeDelayDone(i)
    \/ SaveSettled(i)
    \/ SwitchDelayDone(i)

\* One worker lifetime with one summarize request.
Next ==
    \/ Tick
    \/ BootLoaded
    \/ GetModelStatus
    \/ \E i \in Solo, request \in Requests : Summarize(i, request)
    \/ \E i \in Solo : Step(i)

Spec == Init /\ [][Next]_vars


\* The steps that bear on an invocation's progress: everything but the
\* getModelStatus message, whose handler writes statusReply only.
LiveNext ==
    \/ Tick
    \/ BootLoaded
    \/ \E i \in Solo, request \in Requests : Summarize(i, request)
    \/ \E i \in Solo : Step(i)

\* The code's scheduling: a pending callback, a settled fetch and an elapsed
\* delay are eventually delivered.
LiveSpec ==
    /\ Init
    /\ [][LiveNext]_vars
    /\ WF_vars(BootLoaded)
    /\ \A i \in Solo : WF_vars(Step(i))

(***************************************************************************)
(* Two invocations in one worker, on one UTC day: summarize messages can    *)
(* arrive while an earlier handleSummarize is suspended.                    *)
(***************************************************************************)
\* Both requests: a short page, an API key, no explicit model.
PairRequests ==
    { [hasText |-> TRUE, text |-> <<"a", "b">>,
       apiKey |-> "sk-or-v1-key", customCode |-> Absent] }

\* Each fetch answers a daily-limit 429 or a summary.
PairOutcomes ==
    { [kind |-> "http", status |-> 429,
       body |-> [readable |-> TRUE,
                 rawMessage |-> "Rate limit exceeded: free-models-per-day",
                 remainingZero |-> FALSE]],
      [kind |-> "ok", hasContent |-> TRUE, content |-> <<" ", "s", "s", " ">>] }

\* A fresh install: nothing in storage.
PairInit ==
    /\ Init
    /\ ~stored.hasModels /\ stored.date = NoDate

PairStep(i) ==
    \/ LoadCallback(i)
    \/ \E outcome \in PairOutcomes : FetchSettled(i, outcome)
    \/ SaveSettled(i)
    \/ SwitchDelayDone(i)

PairNext ==
    \/ BootLoaded
    \/ \E i \in Invs, request \in PairRequests : Summarize(i, request)
    \/ \E i \in Invs : PairStep(i)

PairSpec == PairInit /\ [][PairNext]_vars

(***************************************************************************)
(* splitIntoChunks on its own: a call with any text and chunk size, followed *)
(* through the iterations of its while loop.  The worker stays idle.        *)
(***************************************************************************)
workerVars == <<utcDay, exhaustedModels, lastResetDate, stored, boot, inv, statusReply,
                markedToday, storageQueue>>

\* The worker has started, on an empty storage, and has nothing to do.
WorkerIdle ==
    /\ utcDay = 0
    /\ exhaustedModels = {}
    /\ lastResetDate = 0
    /\ stored = [hasModels |-> FALSE, models |-> {}, date |-> NoDate]
    /\ boot = [pc |-> "ready", result |-> IdleInv.loaded]
    /\ inv = [i \in Invs |-> IdleInv]
    /\ statusReply = [asked |-> FALSE]
    /\ markedToday = {}
    /\ storageQueue = << >>

\* The characters of the texts: a letter, a blank, a sentence end, a newline.
SplitChars == {"a", " ", ".", "\n"}

SplitTexts == UNION { [1 .. n -> SplitChars] : n \in 0 .. MaxLen }

\* Lines 335-336: the locals at the call.
SplitCall(text, chunkSize) ==
    [pc |-> "loop", text |-> text, chunkSize |-> chunkSize,
     remaining |-> text, chunks |-> << >>]

\* One pass through the body of the while loop (lines 339-366).
SplitBody(s) ==
    IF Len(s.remaining) <= s.chunkSize
    THEN [s EXCEPT !.chunks = Append(@, Trim(s.remaining)), !.pc = "returned"]
    ELSE LET breakPoint == BreakPoint(s.remaining, s.chunkSize)
         IN  [s EXCEPT !.chunks = Append(@, Trim(SubstringTo(s.remaining, breakPoint))),
                       !.remaining = Trim(SubstringFrom(s.remaining, breakPoint))]

SplitInit ==
    /\ WorkerIdle
    /\ classified = NoClassified
    /\ info = NoInfo /\ outbound = NoOutbound /\ popup = NoPopup
    /\ split \in { SplitCall(text, chunkSize) : text \in SplitTexts, chunkSize \in 1 .. MaxBudget }

\* The loop condition holds (line 338): the body runs.
SplitIterate ==
    /\ split.pc = "loop"
    /\ Len(split.remaining) > 0
    /\ split' = SplitBody(split)
    /\ UNCHANGED <<workerVars, classified, info, outbound, popup>>

\* The loop condition fails: return chunks (line 370).
SplitReturn ==
    /\ split.pc = "loop"
    /\ Len(split.remaining) = 0
    /\ split' = [split EXCEPT !.pc = "returned"]
    /\ UNCHANGED <<workerVars, classified, info, outbound, popup>>

SplitNext == SplitIterate \/ SplitReturn

SplitSpec == SplitInit /\ [][SplitNext]_vars

(***************************************************************************)
(* handleApiError on its own: a call with any error response.               *)
(***************************************************************************)
ClassifyModels == {FREE_MODELS[1], CustomModel}

\* The error bodies, and one whose message has the temporary marker while its
\* metadata says no request remains.
ClassifyBodies ==
    ErrorBodies
    \cup { [readable |-> TRUE, rawMessage |-> "model is temporarily rate-limited upstream",
            remainingZero |-> TRUE] }

ClassifyInit ==
    /\ WorkerIdle
    /\ split = NoSplit
    /\ info = NoInfo /\ outbound = NoOutbound /\ popup = NoPopup
    /\ classified \in [pc : {"called"},
                       response : [status : Statuses, body : ClassifyBodies],
                       model : ClassifyModels]

\* handleApiError runs to its return (line 581).
Classify ==
    /\ classified.pc = "called"
    /\ classified' = [pc |-> "returned",
                      response |-> classified.response,
                      model |-> classified.model,
                      info |-> handleApiError(classified.response, classified.model)]
    /\ UNCHANGED <<workerVars, split, info, outbound, popup>>

ClassifyNext == Classify

ClassifySpec == ClassifyInit /\ [][ClassifyNext]_vars

(***************************************************************************)
(* One invocation on a long page, on one UTC day: the chunk path            *)
(* (summarizeWithChunking), with answers that show which model gave them.   *)
(***************************************************************************)
ChunkRequests ==
    [hasText : {TRUE}, text : ChunkTexts,
     apiKey : {"sk-or-v1-key"}, customCode : {Absent, CustomModel}]

\* The character by which a model's answers are recognised: its 1-based place
\* in the catalogue, "0" for a model outside it.
ModelDigit(m) == ToString(IndexOfModel(m) + 1)

\* What a fetch sent to `model` can come to: a summary (blank, one or two
\* characters), a daily-limit 429, a 503, a timeout.
ChunkOutcomes(model) ==
    { [kind |-> "ok", hasContent |-> TRUE, content |-> c] :
        c \in { <<" ">>,
                <<" ", ModelDigit(model), " ">>,
                <<" ", ModelDigit(model), ModelDigit(model), " ">> } }
    \cup { [kind |-> "http", status |-> 429,
            body |-> [readable |-> TRUE,
                      rawMessage |-> "Rate limit exceeded: free-models-per-day",
                      remainingZero |-> FALSE]],
           [kind |-> "http", status |-> 503,
            body |-> [readable |-> TRUE, rawMessage |-> "", remainingZero |-> FALSE]],
           [kind |-> "abort"] }

ChunkStep(i) ==
    \/ LoadCallback(i)
    \/ \E outcome \in ChunkOutcomes(inv[i].actualModel) : FetchSettled(i, outcome)
    \/ RetryDelayDone(i)
    \/ ChunkDelayDone(i)
    \/ MergeDelayDone(i)
    \/ SaveSettled(i)
    \/ SwitchDelayDone(i)

ChunkNext ==
    \/ BootLoaded
    \/ \E i \in Solo, request \in ChunkRequests : Summarize(i, request)
    \/ \E i \in Solo : ChunkStep(i)

ChunkSpec == Init /\ [][ChunkNext]_vars

(***************************************************************************)
(* getModelInfo on its own.  Here a model identifier is the sequence of its  *)
(* pieces: words, the slash, the ':free' suffix.                             *)
(***************************************************************************)
\* Longest identifier made of IdPieces that is tried.
MaxIdLen == 3

IdPieces == {"acme", "gpt", "/", ":free"}

\* The object literal MODEL_INFO (lines 34-45): its own properties.
MODEL_INFO ==
    ( <<"google", "/", "gemini-2.0-flash-exp", ":free">> :>
          [name |-> <<"Gemini 2.0 Flash">>, context |-> "1M tokens", provider |-> <<"Google">>] )
    @@ ( <<"meta-llama", "/", "llama-3.3-70b-instruct", ":free">> :>
          [name |-> <<"Llama 3.3 70B">>, context |-> "128K tokens", provider |-> <<"Meta">>] )
    @@ ( <<"deepseek", "/", "deepseek-r1", ":free">> :>
          [name |-> <<"DeepSeek R1">>, context |-> "128K tokens", provider |-> <<"DeepSeek">>] )
    @@ ( <<"qwen", "/", "qwen-2.5-coder-32b-instruct", ":free">> :>
          [name |-> <<"Qwen 2.5 Coder 32B">>, context |-> "32K tokens", provider |-> <<"Alibaba">>] )
    @@ ( <<"cognitivecomputations", "/", "dolphin-mistral-24b-venice-edition", ":free">> :>
          [name |-> <<"Dolphin Mistral 24B">>, context |-> "32K tokens",
           provider |-> <<"Cognitive Computations">>] )
    @@ ( <<"openai", "/", "gpt-3.5-turbo">> :>
          [name |-> <<"GPT-3.5 Turbo">>, context |-> "16K tokens", provider |-> <<"OpenAI">>] )
    @@ ( <<"openai", "/", "gpt-4o-mini">> :>
          [name |-> <<"GPT-4o Mini">>, context |-> "128K tokens", provider |-> <<"OpenAI">>] )
    @@ ( <<"anthropic", "/", "claude-3-haiku">> :>
          [name |-> <<"Claude 3 Haiku">>, context |-> "200K tokens", provider |-> <<"Anthropic">>] )

\* Names every object literal inherits from Object.prototype: MODEL_INFO[k] is
\* a function or an object for them, with no enumerable property of its own.
InheritedKeys == { <<"constructor">>, <<"toString">>, <<"__proto__">> }

\* String.prototype.split('/').
RECURSIVE SplitOnSlash(_)
SplitOnSlash(s) ==
    IF \A k \in DOMAIN s : s[k] # "/" THEN <<s>>
    ELSE LET at == CHOOSE k \in DOMAIN s : s[k] = "/" /\ \A j \in 1 .. (k - 1) : s[j] # "/"
         IN  <<SubSeq(s, 1, at - 1)>> \o SplitOnSlash(SubSeq(s, at + 1, Len(s)))

\* charAt(0).toUpperCase() on a piece.
UpperFirst(piece) ==
    CASE piece = "acme" -> "Acme"
      [] piece = "gpt" -> "Gpt"
      [] OTHER -> piece

\* provider.charAt(0).toUpperCase() + provider.slice(1)
Capitalize(str) == IF str = << >> THEN << >> ELSE <<UpperFirst(str[1])>> \o Tail(str)

\* getModelInfo (lines 129-143).  A property that is undefined is Absent.
getModelInfo(modelId) ==
    IF modelId \in DOMAIN MODEL_INFO
    THEN [id |-> modelId, name |-> MODEL_INFO[modelId].name,
          context |-> MODEL_INFO[modelId].context, provider |-> MODEL_INFO[modelId].provider]
    ELSE IF modelId \in InheritedKeys
    THEN [id |-> modelId, name |-> Absent, context |-> Absent, provider |-> Absent]
    ELSE LET parts == SplitOnSlash(modelId)
             provider == IF parts[1] # << >> THEN parts[1] ELSE <<"Unknown">>
             name == IF Len(parts) >= 2 /\ parts[2] # << >> THEN parts[2] ELSE modelId
             isFree == \E k \in DOMAIN modelId : modelId[k] = ":free"
         IN  [id |-> modelId,
              name |-> name \o (IF isFree THEN <<" (Free)">> ELSE << >>),
              context |-> "Unknown",
              provider |-> Capitalize(provider)]

\* The non-empty identifiers getModelInfo is called with.
InfoIds ==
    DOMAIN MODEL_INFO \cup InheritedKeys
    \cup UNION { [1 .. n -> IdPieces] : n \in 1 .. MaxIdLen }

InfoInit ==
    /\ WorkerIdle
    /\ split = NoSplit /\ classified = NoClassified
    /\ outbound = NoOutbound /\ popup = NoPopup
    /\ info \in [pc : {"called"}, modelId : InfoIds]

\* getModelInfo runs to its return.
GetInfo ==
    /\ info.pc = "called"
    /\ info' = [pc |-> "returned", modelId |-> info.modelId,
                result |-> getModelInfo(info.modelId)]
    /\ UNCHANGED <<workerVars, split, classified, outbound, popup>>

InfoNext == GetInfo

InfoSpec == InfoInit /\ [][InfoNext]_vars

(***************************************************************************)
(* The request body on its own: summarizeSingleChunk or combineSummaries   *)
(* builds the prompt around the text it was handed, and makeApiRequest     *)
(* turns the prompt into the two messages of the body.  "Content:" and the *)
(* fixed instruction lines are single tokens; everything else is a         *)
(* character.                                                              *)
(***************************************************************************)
\* Texts handed over have at most MaxTextLen characters.
MaxTextLen == 4
TextChars == {"a", " ", "\n", "Content:"}
BodyTexts == UNION { [1 .. n -> TextChars] : n \in 0 .. MaxTextLen }

\* The argument of prompt.split in makeApiRequest.
ContentMark == <<"\n", "\n", "Content:">>

\* The template of summarizeSingleChunk around ${text}.
ChunkPrompt(text) ==
    <<"Summarize the following content ... first bullet point">>
    \o ContentMark \o <<"\n">> \o text

\* The template of combineSummaries around ${combinedSummaries}.
MergePrompt(combinedSummaries) ==
    <<"Combine these summaries ... first bullet point", "\n", "\n",
      "Summaries to combine:", "\n">> \o combinedSummaries

\* String.prototype.indexOf for a pattern; 1-based, 0 if none.
IndexOfSeq(s, pat) ==
    LET at == { k \in 1 .. (Len(s) - Len(pat) + 1) : SubSeq(s, k, k + Len(pat) - 1) = pat }
    IN  IF at = {} THEN 0 ELSE CHOOSE k \in at : \A j \in at : k <= j

\* String.prototype.split with a string separator.
RECURSIVE SplitOn(_, _)
SplitOn(s, pat) ==
    LET at == IndexOfSeq(s, pat)
    IN  IF at = 0 THEN <<s>>
        ELSE <<SubSeq(s, 1, at - 1)>> \o SplitOn(SubSeq(s, at + Len(pat), Len(s)), pat)

\* 'Content:\n' + x, where x may be undefined.
ConcatContent(pieces) ==
    <<"Content:", "\n">> \o (IF Len(pieces) >= 2 THEN pieces[2] ELSE <<"undefined">>)

\* The `messages` of the body of makeApiRequest.
RequestMessages(prompt) ==
    [system |-> Trim(SplitOn(prompt, ContentMark)[1]),
     user   |-> ConcatContent(SplitOn(prompt, ContentMark))]

\* The texts summarizeSingleChunk is called with.
ChunkCallTexts == BodyTexts
\* The joined summaries combineSummaries is called with: two trimmed model
\* outputs with the separator of summarizeWithChunking between them.
MergeCallTexts == { Join(<<Trim(t), <<"a">>>>, Separator) : t \in BodyTexts }

BodyInit ==
    /\ WorkerIdle
    /\ split = NoSplit /\ classified = NoClassified
    /\ info = NoInfo /\ popup = NoPopup
    /\ outbound \in [pc : {"chunk"}, text : ChunkCallTexts]
                    \cup [pc : {"merge"}, text : MergeCallTexts]

\* summarizeSingleChunk up to its call of makeApiRequest.
SummarizeSingleChunkCall ==
    /\ outbound.pc = "chunk"
    /\ outbound' = [pc |-> "request", kind |-> "chunk", text |-> outbound.text,
                    prompt |-> ChunkPrompt(outbound.text)]
    /\ UNCHANGED <<workerVars, split, classified, info, popup>>

\* combineSummaries up to its call of makeApiRequest.
CombineSummariesCall ==
    /\ outbound.pc = "merge"
    /\ outbound' = [pc |-> "request", kind |-> "merge", text |-> outbound.text,
                    prompt |-> MergePrompt(outbound.text)]
    /\ UNCHANGED <<workerVars, split, classified, info, popup>>

\* makeApiRequest up to the fetch: the body is built and sent.
SendBody ==
    /\ outbound.pc = "request"
    /\ outbound' = [pc |-> "sent", kind |-> outbound.kind, text |-> outbound.text,
                    prompt |-> outbound.prompt,
                    messages |-> RequestMessages(outbound.prompt)]
    /\ UNCHANGED <<workerVars, split, classified, info, popup>>

BodyNext == SummarizeSingleChunkCall \/ CombineSummariesCall \/ SendBody

BodySpec == BodyInit /\ [][BodyNext]_vars

(***************************************************************************)
(* The popup (src/popup/popup.js) on its own: one popup instance, its      *)
(* isProcessing flag, the Summarize button, the view shown, the error text *)
(* last shown, and the runs of handleSummarize, each at the await where it *)
(* is suspended.                                                           *)
(***************************************************************************)
\* Runs of handleSummarize that are followed at the same time.
MaxRuns == 2
Runs == 1 .. MaxRuns

\* The popup page once loaded (line 55 and init).
PopupOpened ==
    [pc |-> "open", isProcessing |-> FALSE, disabled |-> FALSE,
     currentView |-> "main", errorMessage |-> "",
     runs |-> [r \in Runs |-> "none"]]

PopupInit ==
    /\ WorkerIdle
    /\ split = NoSplit /\ classified = NoClassified
    /\ info = NoInfo /\ outbound = NoOutbound
    /\ popup = NoPopup

\* handleSummarize up to its first await without the test of isProcessing.
handleSummarizeNoGuard(p, r, hasKey) ==
    IF ~hasKey THEN p
    ELSE [p EXCEPT !.isProcessing = TRUE, !.currentView = "loading",
                   !.disabled = TRUE, !.runs[r] = "tabQuery"]

\* handleSummarize up to its first await (lines 378-407); r is the run that
\* begins if one does.
handleSummarize(p, r, hasKey) ==
    IF p.isProcessing THEN p
    ELSE IF ~hasKey THEN p
    ELSE [p EXCEPT !.isProcessing = TRUE, !.currentView = "loading",
                   !.disabled = TRUE, !.runs[r] = "tabQuery"]

\* catch and finally of handleSummarize (lines 506-514), up to the await of
\* updateModelStatus.
CatchFinally(p, r, message) ==
    [p EXCEPT !.errorMessage = message, !.currentView = "error",
              !.isProcessing = FALSE, !.disabled = FALSE, !.runs[r] = "status"]

\* The end of the try block and finally (lines 499-514).
SucceedFinally(p, r) ==
    [p EXCEPT !.currentView = "detail",
              !.isProcessing = FALSE, !.disabled = FALSE, !.runs[r] = "status"]

\* How an awaited promise settles.  Fulfilled: with a usable value;
\* Throws(m): the code after the await throws m, or the promise is rejected
\* with m; Swallowed: rejected inside the inner try of lines 419-426;
\* NoConnection: rejected with 'Could not establish connection'.
Fulfilled == [kind |-> "ok", message |-> ""]
Swallowed == [kind |-> "swallowed", message |-> ""]
NoConnection == [kind |-> "noConnection", message |-> "Could not establish connection"]
Throws(m) == [kind |-> "throw", message |-> m]

\* What the awaited promise of a run can settle with, by the await it is at.
Settlements(at) ==
    CASE at = "tabQuery" ->
           {Fulfilled, Throws("Could not access current tab. Please refresh and try again."),
            Throws("Cannot summarize browser system pages."),
            Throws("An unexpected error occurred")}
      [] at = "inject" -> {Fulfilled, Swallowed}
      [] at \in {"wait", "rewait"} -> {Fulfilled}
      [] at = "extract" ->
           {Fulfilled, NoConnection,
            Throws("Failed to communicate with page. Please refresh and try again."),
            Throws("Failed to extract page content."),
            Throws("No text content found on this page.")}
      [] at = "reinject" -> {Fulfilled, Throws("An unexpected error occurred")}
      [] at = "reextract" ->
           {Fulfilled, Throws("An unexpected error occurred"),
            Throws("Failed to extract page content."),
            Throws("No text content found on this page.")}
      [] at = "summarize" ->
           {Fulfilled, Throws("Failed to summarize content"),
            Throws("An unexpected error occurred")}
      [] at = "save" -> {Fulfilled, Throws("An unexpected error occurred")}
      [] at = "status" -> {Fulfilled}
      [] OTHER -> {}

\* The await after `at` when the promise is fulfilled (lines 405-499).
NextAwait(at) ==
    CASE at = "tabQuery" -> "inject"
      [] at = "inject" -> "wait"
      [] at = "wait" -> "extract"
      [] at = "extract" -> "summarize"
      [] at = "reinject" -> "rewait"
      [] at = "rewait" -> "reextract"
      [] at = "reextract" -> "summarize"
      [] at = "summarize" -> "save"

\* Run r resumes after its await settled with `how`.
Resume(p, r, how) ==
    LET at == p.runs[r]
    IN  IF at = "status" THEN [p EXCEPT !.runs[r] = "none"]
        ELSE IF how = NoConnection THEN [p EXCEPT !.runs[r] = "reinject"]
        ELSE IF how.kind = "throw" THEN CatchFinally(p, r, how.message)
        ELSE IF at = "save" THEN SucceedFinally(p, r)
        ELSE [p EXCEPT !.runs[r] = NextAwait(at)]

\* The awaits between `isProcessing = true` and finally.
InTry == {"tabQuery", "inject", "wait", "extract", "reinject", "rewait", "reextract",
          "summarize", "save"}

\* The popup is opened: a new instance of the page and its script.
OpenPopup ==
    /\ popup = NoPopup
    /\ popup' = PopupOpened
    /\ UNCHANGED <<workerVars, split, classified, info, outbound>>

\* The popup is closed: the instance and its runs are gone.
ClosePopup ==
    /\ popup.pc = "open"
    /\ popup' = NoPopup
    /\ UNCHANGED <<workerVars, split, classified, info, outbound>>

\* A click on Summarize or Enter in one of the inputs (lines 91, 98-103).
Press(hasKey) ==
    /\ popup.pc = "open"
    /\ \E r \in Runs :
         /\ popup.runs[r] = "none"
         /\ \A q \in 1 .. (r - 1) : popup.runs[q] # "none"
         /\ popup' = handleSummarize(popup, r, hasKey)
    /\ UNCHANGED <<workerVars, split, classified, info, outbound>>

\* The promise a run awaits settles.
Settled(r) ==
    /\ popup.pc = "open"
    /\ \E how \in Settlements(popup.runs[r]) : popup' = Resume(popup, r, how)
    /\ UNCHANGED <<workerVars, split, classified, info, outbound>>

\* The back button, or Retry on the error view (lines 80, 94, 199-202).
GoBack ==
    /\ popup.pc = "open"
    /\ popup.currentView \in {"detail", "error"}
    /\ popup' = [popup EXCEPT !.currentView = "main"]
    /\ UNCHANGED <<workerVars, split, classified, info, outbound>>

PopupNext ==
    \/ OpenPopup
    \/ ClosePopup
    \/ \E hasKey \in BOOLEAN : Press(hasKey)
    \/ \E r \in Runs : Settled(r)
    \/ GoBack

PopupSpec == PopupInit /\ [][PopupNext]_vars

(***************************************************************************)
(* Properties.                                                             *)
(***************************************************************************)
ValidRequest(req) ==
    req.apiKey # Absent /\ req.hasText /\ Len(Trim(req.text)) > 0

\* The caller supplied an explicit model outside the free catalogue.
CustomMode(req) == req.customCode # Absent /\ req.customCode \notin FreeModelSet

LastTried(st) == st.tried[Len(st.tried)]

Mentions(message, model) == \E k \in DOMAIN message : message[k] = model

IsAllExhausted(r) ==
    ~r.success /\ Len(r.error) > 0 /\ r.error[1] = "All free models exhausted for today!"

\* C1: handleSummarize sends exactly one response (never two; one by the time
\* it has returned), a success carrying a summary or a failure carrying a
\* non-empty message, and once the response is sent the invocation does
\* nothing more: no attempt, no fetch, no change of the exhaustion state.
C1_ExactlyOneResponse ==
    /\ [](\A i \in Invs :
            /\ inv[i].sent <= 1
            /\ (inv[i].sent = 1) <=> (inv[i].pc = "done")
            /\ inv[i].pc = "done" =>
                 IF inv[i].response.success
                 THEN "summary" \in DOMAIN inv[i].response
                 ELSE inv[i].response.error # << >>)
    /\ [][\A i \in Invs :
            inv[i].pc = "done" =>
                /\ inv'[i] = inv[i]
                /\ exhaustedModels' = exhaustedModels
                /\ stored' = stored]_vars

\* C1 witness: an invocation that cycled through two models has returned with
\* its one response, a success.
C1_Witness ==
    \E i \in Invs :
        /\ inv[i].pc = "done" /\ inv[i].sent = 1
        /\ inv[i].response.success /\ Len(inv[i].tried) = 2

\* C2: with every callback, fetch and delay eventually delivered, an invocation
\* that has started eventually returns (with its Success or Failure response),
\* whatever the fetches come to.
C2_Terminates ==
    \A i \in Invs : (inv[i].pc # "idle") ~> (inv[i].pc = "done" /\ inv[i].sent = 1)

\* C2 witness: an invocation has returned after a local retry and after
\* rate-limit failures on every catalogue model.
C2_Witness ==
    \E i \in Invs :
        /\ inv[i].pc = "done" /\ Len(inv[i].tried) = Len(FREE_MODELS)
        /\ IsAllExhausted(inv[i].response)

\* C3: past validation the mode is fixed: with an explicit model outside the
\* catalogue cycling is off, exactly one attempt is made, on that model, and
\* the invocation never marks or switches; otherwise cycling is on and at most
\* Len(FREE_MODELS) = 5 attempts are made.
C3_ModeFixed ==
    \A i \in Invs :
        LET st == inv[i]
        IN  (st.pc \notin {"idle", "loadWait"} /\ ValidRequest(st.request)) =>
                IF CustomMode(st.request)
                THEN /\ ~st.isUsingFreeModels
                     /\ Len(st.tried) = 1
                     /\ st.tried[1].model = st.request.customCode
                     /\ st.actualModel = st.request.customCode
                     /\ st.pc \notin {"saveWait", "switchDelay"}
                ELSE /\ st.isUsingFreeModels
                     /\ Len(st.tried) <= Len(FREE_MODELS)
                     /\ Len(FREE_MODELS) = 5

\* C3 witness: an explicit custom model failed with a rate-limit error and the
\* invocation returned after its single attempt.
C3_Witness ==
    \E i \in Invs :
        /\ inv[i].pc = "done" /\ CustomMode(inv[i].request)
        /\ Len(inv[i].tried) = 1
        /\ ~inv[i].response.success
        /\ inv[i].response.error = <<"Rate limit hit">>

\* Position of model m after model cur in round-robin order (cur itself last).
RoundRobinRank(cur, m) ==
    (IndexOfModel(m) - IndexOfModel(cur) - 1 + Len(FREE_MODELS)) % Len(FREE_MODELS)

\* C4: on a rate-limited failure with cycling on, the current model is marked
\* exhausted in memory and in storage; then the first catalogue entry outside
\* the ExhaustionSet, in round-robin order after the current model, is selected,
\* the switch delay is awaited and an attempt with that model starts; if no
\* entry is left the invocation ends with the all-free-models-exhausted failure.
C4_MarkThenSwitch ==
    [][\A i \in Invs :
         LET st == inv[i]
             st2 == inv'[i]
             left == FreeModelSet \ exhaustedModels'
         IN  /\ st.pc = "saveWait" =>
                   /\ st.actualModel \in exhaustedModels
                   /\ stored.hasModels /\ st.actualModel \in stored.models
             /\ (st.pc = "saveWait" /\ st2 # st) =>
                   IF left # {}
                   THEN /\ st2.pc = "switchDelay"
                        /\ st2.actualModel \in left
                        /\ \A m \in left : RoundRobinRank(st.actualModel, st2.actualModel)
                                             <= RoundRobinRank(st.actualModel, m)
                   ELSE st2.pc = "done" /\ IsAllExhausted(st2.response)
             /\ (st.pc = "switchDelay" /\ st2 # st) =>
                   /\ st2.pc = "fetch"
                   /\ st2.actualModel = st.actualModel
                   /\ LastTried(st2).model = st.actualModel]_vars

\* C5: a Success names the model of the last attempt, and fallbackUsed is true
\* exactly when that model is not the model of the first attempt; in default
\* mode, when the first model fails rate-limited and the second succeeds, the
\* Success names the second model with fallbackUsed true.
C5_SuccessNamesLastModel ==
    \A i \in Invs :
        LET st == inv[i]
        IN  (st.pc = "done" /\ st.response.success) =>
                /\ st.response.modelInfo.id = LastTried(st).model
                /\ st.response.modelInfo.fallbackUsed
                     <=> (LastTried(st).model # st.tried[1].model)
                /\ (st.request.customCode = Absent /\ Len(st.tried) = 2) =>
                     /\ st.response.modelInfo.fallbackUsed
                     /\ st.response.modelInfo.id = st.tried[2].model
                     /\ st.tried[2].model # st.tried[1].model

\* C5 witness: default mode, the first catalogue model failed, the second
\* succeeded, and the Success reports the second with fallbackUsed.
C5_Witness ==
    \E i \in Invs :
        /\ inv[i].pc = "done" /\ inv[i].response.success
        /\ inv[i].request.customCode = Absent
        /\ Len(inv[i].tried) = 2
        /\ inv[i].tried[1].model = FREE_MODELS[1]
        /\ inv[i].response.modelInfo.id = FREE_MODELS[2]
        /\ inv[i].response.modelInfo.fallbackUsed

\* The 429 responses, and the marker handleApiError finds in their body.
Responses429 == [kind : {"http"}, status : {429}, body : ErrorBodies]

DailyBody(b) ==
    b.readable /\ ("free-models-per-day" \in NeedlesIn(b.rawMessage) \/ b.remainingZero)

TemporaryBody(b) ==
    b.readable /\ ~DailyBody(b) /\ "temporarily rate-limited" \in NeedlesIn(b.rawMessage)

\* The invocation awaits the first network call of its first attempt.
FirstCall(st) ==
    /\ st.pc = "fetch" /\ Len(st.tried) = 1
    /\ st.i = 0 /\ ~st.merging /\ st.retryCount = 0

\* C6 as stated: with an explicit model outside the catalogue, a 429 answer to
\* the first call, whatever its body, ends the invocation at once with a
\* Failure whose message mentions the model id; no other model is tried and no
\* model is marked exhausted.
C6_Custom429FailsAtOnce ==
    [][\A i \in Invs, o \in Responses429 :
         (CustomMode(inv[i].request) /\ FirstCall(inv[i]) /\ FetchSettled(i, o)) =>
             /\ inv'[i].pc = "done"
             /\ ~inv'[i].response.success
             /\ Mentions(inv'[i].response.error, inv[i].request.customCode)
             /\ inv'[i].tried = inv[i].tried
             /\ exhaustedModels' = exhaustedModels
             /\ stored' = stored]_vars

\* C6 amended: with an explicit model outside the catalogue a 429 answer never
\* marks a model and never brings in another model.  A body with the daily
\* marker ends the invocation at once with a Failure that mentions the model
\* id.  A body with the temporary marker is retried once on the same model
\* after the retry delay, and a second such answer ends the invocation with a
\* Failure that mentions the model id.  Any other body ends the invocation at
\* once with a generic message that does not name the model.
C6_Custom429NoCycling ==
    [][\A i \in Invs :
         LET st == inv[i]
             st2 == inv'[i]
             custom == st.request.customCode
         IN  /\ \A o \in Responses429 :
                  (CustomMode(st.request) /\ st.pc = "fetch" /\ FetchSettled(i, o)) =>
                      /\ st2.tried = st.tried /\ Len(st2.tried) = 1
                      /\ exhaustedModels' = exhaustedModels
                      /\ stored' = stored
                      /\ IF TemporaryBody(o.body) /\ st.retryCount = 0
                         THEN st2.pc = "retryDelay" /\ st2.actualModel = custom
                         ELSE /\ st2.pc = "done"
                              /\ ~st2.response.success
                              /\ IF DailyBody(o.body) \/ TemporaryBody(o.body)
                                 THEN Mentions(st2.response.error, custom)
                                 ELSE st2.response.error \in
                                          {<<"Rate limit hit">>, <<"API error: 429">>}
             /\ (CustomMode(st.request) /\ st.pc = "retryDelay" /\ st2 # st) =>
                      /\ st2.pc = "fetch"
                      /\ st2.actualModel = custom
                      /\ st2.tried = st.tried]_vars

\* C6 witness: an explicit custom model got a daily-limit 429 on its first call
\* and the invocation returned the Failure naming it, with nothing marked.
C6_Witness ==
    \E i \in Invs :
        /\ inv[i].pc = "done" /\ CustomMode(inv[i].request)
        /\ inv[i].response = Failure(<<"Daily limit reached for ", CustomModel>>)
        /\ Len(inv[i].tried) = 1
        /\ CustomModel \notin exhaustedModels

\* C7: an error the classifier did not flag as rate-limited (any status but a
\* classified 429, a timeout, a network error, a malformed response) takes the
\* invocation straight to the Failure carrying the error's message; the model
\* is not marked and no other model is tried, whatever the message says.
C7_UnclassifiedFailsDirectly ==
    [][\A i \in Invs, o \in FetchOutcomes :
         LET st == inv[i]
             r == makeApiRequest(o, st.actualModel, st.retryCount)
         IN  (st.pc = "fetch" /\ FetchSettled(i, o)
                /\ r.kind = "throw" /\ ~r.error.isRateLimited) =>
                 /\ inv'[i].pc = "done"
                 /\ inv'[i].response = Failure(r.error.message)
                 /\ inv'[i].tried = st.tried
                 /\ exhaustedModels' = exhaustedModels
                 /\ stored' = stored]_vars

\* The models of attempts j < k differ, for all attempts (sameDay FALSE) or for
\* attempts started on the same UTC day (sameDay TRUE).
NoRepeat(tried, sameDay) ==
    \A j, k \in DOMAIN tried :
        (j < k /\ (sameDay => tried[j].day = tried[k].day)) =>
            tried[j].model # tried[k].model

C9_ReadResetsOnNewDay ==
    [][/\ (statusReply'.asked /\ lastResetDate # utcDay) =>
              /\ statusReply'.reply.exhaustedModels = {}
              /\ Len(statusReply'.reply.availableModels) = Len(FREE_MODELS)
              /\ lastResetDate' = utcDay
       /\ \A i \in Invs :
              (inv[i].pc = "saveWait" /\ inv[i].saveOk /\ inv'[i] # inv[i]
                 /\ lastResetDate # utcDay) =>
                  /\ exhaustedModels' = {}
                  /\ lastResetDate' = utcDay]_vars

\* C10: the persisted pair never carries the stamp of a day together with a
\* model marked exhausted on another day; stated for the current day, the one
\* a reader compares the stamp with: when the stored stamp is today's, every
\* stored model was marked today.
C10_StampMatchesMarks ==
    (stored.hasModels /\ stored.date = utcDay) => stored.models \subseteq markedToday

\* The failure an invocation ends with when its storage write was rejected.
StorageFailure == Failure(<<"QUOTA_BYTES quota exceeded">>)

\* No other invocation is in progress.
RunsAlone(i) == \A j \in Invs \ {i} : inv[j].pc \in {"idle", "done"}

\* C11: a rejected storage write in markModelExhausted is not fatal: the
\* invocation goes on to the next model (or to the all-exhausted failure when
\* none is left), the model just marked stays in the in-memory set, and a later
\* invocation of the same worker still finds in memory every model marked that
\* day.
C11_SaveFailureNotFatal ==
    [][\A i \in Invs :
         LET st == inv[i]
             st2 == inv'[i]
         IN  /\ (st.pc = "saveWait" /\ ~st.saveOk /\ st2 # st) =>
                   /\ st.actualModel \in exhaustedModels'
                   /\ \/ st2.pc = "switchDelay"
                      \/ st2.pc = "done" /\ IsAllExhausted(st2.response)
             /\ (st.pc = "loadWait" /\ st2 # st /\ RunsAlone(i) /\ st.loaded = stored) =>
                   markedToday \subseteq exhaustedModels']_vars

\* C12: two interleaved invocations do not corrupt the ExhaustionSet: once both
\* have returned on the same UTC day, neither through a storage failure, every
\* model either of them marked exhausted is in the in-memory set and in the
\* persisted set.
C12_NoMarkLost ==
    ( /\ \A i \in Invs : inv[i].pc = "done" /\ inv[i].response # StorageFailure
      /\ lastResetDate = utcDay )
        => /\ markedToday \subseteq exhaustedModels
           /\ markedToday \subseteq stored.models
           /\ markedToday # {} => stored.hasModels /\ stored.date = utcDay

\* The text consists of whitespace only (the empty text included).
IsBlank(text) == \A k \in DOMAIN text : IsSpace(text[k])

\* The request lacks its API key, or its text is absent, empty or blank.
Invalid(req) == req.apiKey = Absent \/ ~req.hasText \/ IsBlank(req.text)

ValidationErrors == { <<"API key is required">>, <<"No content found on this page.">> }

\* C13: a request without an API key, or whose text is absent, empty or
\* whitespace only, ends at the entry load's callback with a validation
\* failure: no network call is issued, no model is selected or marked, nothing
\* is written to storage and no storage operation is started.
C13_ValidationFailsFast ==
    /\ [](\A i \in Invs :
            (Invalid(inv[i].request) /\ inv[i].pc \notin {"idle", "loadWait"}) =>
                /\ inv[i].pc = "done"
                /\ ~inv[i].response.success
                /\ inv[i].response.error \in ValidationErrors
                /\ inv[i].tried = << >>
                /\ inv[i].model = Absent /\ inv[i].actualModel = Absent)
    /\ [][\A i \in Invs :
            (Invalid(inv[i].request) /\ inv[i].pc = "loadWait" /\ inv'[i] # inv[i]) =>
                /\ stored' = stored
                /\ markedToday' = markedToday
                /\ exhaustedModels' \subseteq inv[i].loaded.models
                /\ storageQueue' = Tail(storageQueue)]_vars

\* C13 witness: a whitespace-only page sent with an API key was refused while
\* storage held exhausted models, and they are still there.
C13_Witness ==
    \E i \in Invs :
        /\ inv[i].pc = "done"
        /\ inv[i].request.apiKey # Absent /\ inv[i].request.text = <<" ">>
        /\ inv[i].response = Failure(<<"No content found on this page.">>)
        /\ inv[i].tried = << >>
        /\ stored.hasModels /\ stored.models # {}

\* The loop of splitIntoChunks has returned.
SplitDone == split.pc = "returned"

\* C14: for a text no longer than the chunk size, the empty text and blank
\* texts included, splitIntoChunks returns exactly one chunk, trim(text).
C14_ShortTextOneChunk ==
    (SplitDone /\ Len(split.text) <= split.chunkSize) =>
        split.chunks = << Trim(split.text) >>

\* C15: no chunk that splitIntoChunks returns is empty.
C15_NoEmptyChunk ==
    SplitDone => \A k \in DOMAIN split.chunks : split.chunks[k] # << >>

\* C16: every chunk, while the split runs and when it has returned, is at most
\* chunkSize long and neither starts nor ends with whitespace.
C16_ChunkBoundedAndTrimmed ==
    split.pc # "none" =>
        \A k \in DOMAIN split.chunks :
            LET chunk == split.chunks[k]
            IN  /\ Len(chunk) <= split.chunkSize
                /\ chunk # << >> => ~IsSpace(chunk[1]) /\ ~IsSpace(chunk[Len(chunk)])

\* C16 witness: a text was cut at a sentence end into two chunks, the first of
\* them shorter than the chunk size.
C16_Witness ==
    /\ SplitDone
    /\ split.text = <<"a", "a", "a", ".", " ", "a">> /\ split.chunkSize = 5
    /\ split.chunks = << <<"a", "a", "a", ".">>, <<"a">> >>

\* s without its leading whitespace.
RECURSIVE DropSpace(_)
DropSpace(s) == IF s # << >> /\ IsSpace(s[1]) THEN DropSpace(Tail(s)) ELSE s

IsPrefix(c, s) == Len(c) <= Len(s) /\ SubSeq(s, 1, Len(c)) = c

\* text is the chunks in order, each one verbatim, with nothing but whitespace
\* before the first, between two of them and after the last.
RECURSIVE Covers(_, _)
Covers(text, chunks) ==
    LET t == DropSpace(text)
    IN  IF chunks = << >> THEN t = << >>
        ELSE IF Head(chunks) = << >> THEN Covers(t, Tail(chunks))
        ELSE /\ IsPrefix(Head(chunks), t)
             /\ Covers(SubSeq(t, Len(Head(chunks)) + 1, Len(t)), Tail(chunks))

\* C17: the chunks returned, read in order, are the text itself with whitespace
\* taken out only at the cuts and at the two ends: every other character is
\* there once, in its place (no gap, no overlap).
C17_ChunksCoverText ==
    SplitDone => Covers(split.text, split.chunks)

\* C17 witness: a text was cut after a blank into two chunks and the blanks at
\* the cut and at the end are the only characters missing.
C17_Witness ==
    /\ SplitDone
    /\ split.text = <<"a", "a", " ", "a", "a", " ">> /\ split.chunkSize = 3
    /\ split.chunks = << <<"a", "a">>, <<"a", "a">> >>

\* C18: an iteration of the loop that does not leave it makes the remaining
\* text strictly shorter, whatever the text and the chunk size (>= 1); hence
\* the loop runs at most Len(text) times, one chunk each.
C18_RemainingShrinks ==
    /\ [][(split.pc = "loop" /\ split'.pc = "loop" /\ split' # split) =>
              Len(split'.remaining) < Len(split.remaining)]_vars
    /\ [](split.pc # "none" => Len(split.chunks) <= Len(split.text))

\* C18 witness: a text without whitespace or sentence end was split with chunk
\* size 1 and the loop returned after one iteration per character.
C18_Witness ==
    /\ SplitDone
    /\ split.text = <<"a", "a", "a", "a", "a", "a">> /\ split.chunkSize = 1
    /\ Len(split.chunks) = 6

\* The response is one the classifier calls retryable here: 502 or 503, or a
\* 429 with the temporary marker (the body being readable).
RetryableHere(o) ==
    /\ o.kind = "http" /\ o.body.readable
    /\ o.status \in {502, 503} \/ (o.status = 429 /\ TemporaryBody(o.body))

\* C19: one execute of makeApiRequest issues at most MAX_RETRIES + 1 = 2
\* network calls (retryCount counts the calls after the first), all to the same
\* model; the second call is made only after a response that is retryable here
\* and only after the retry delay; after the second call nothing is retried.
C19_AtMostOneRetry ==
    /\ [](\A i \in Invs :
            /\ inv[i].retryCount \in 0 .. MAX_RETRIES
            /\ MAX_RETRIES + 1 = 2
            /\ inv[i].pc = "retryDelay" => inv[i].retryCount = 1)
    /\ [][\A i \in Invs :
            LET st == inv[i]
                st2 == inv'[i]
            IN  /\ (st.pc = "fetch" /\ st2.pc = "retryDelay") =>
                      /\ st.retryCount = 0 /\ st2.retryCount = 1
                      /\ st2.actualModel = st.actualModel
                /\ \A o \in FetchOutcomes :
                      (st.pc = "fetch" /\ FetchSettled(i, o) /\ ~RetryableHere(o)) =>
                          st2.pc # "retryDelay"
                /\ (st.pc = "retryDelay" /\ st2 # st) =>
                      /\ st2.pc = "fetch" /\ st2.retryCount = 1
                      /\ st2.actualModel = st.actualModel
                      /\ st2.tried = st.tried
                /\ (st2.pc = "fetch" /\ st2.retryCount = 1 /\ st2 # st) =>
                      st.pc = "retryDelay"
                /\ (st.pc = "fetch" /\ st.retryCount = 1 /\ st2 # st) =>
                      st2.retryCount = 0 /\ st2.pc # "retryDelay"]_vars

\* C19 witness: after a retryable response and the retry delay the second call
\* of an execute is outstanding, on the model of the first.
C19_Witness ==
    \E i \in Invs :
        /\ inv[i].pc = "fetch" /\ inv[i].retryCount = 1
        /\ Len(inv[i].tried) = 1
        /\ inv[i].actualModel = inv[i].tried[1].model

\* C20: handleApiError returns isRateLimited = TRUE exactly for status 429,
\* whatever the body (daily or temporary marker, unclassified, not JSON,
\* unreadable).
C20_RateLimitedIff429 ==
    classified.pc = "returned" =>
        (classified.info.isRateLimited <=> classified.response.status = 429)

\* The markers a body carries.
HasDailyMarker(b) ==
    "free-models-per-day" \in NeedlesIn(b.rawMessage) \/ b.remainingZero

HasTemporaryMarker(b) == "temporarily rate-limited" \in NeedlesIn(b.rawMessage)

\* C21: handleApiError returns shouldRetry = TRUE exactly for status 502,
\* status 503, and a 429 whose body carries the temporary marker and no daily
\* marker; for every other response it returns shouldRetry = FALSE.
C21_RetryableExactly ==
    classified.pc = "returned" =>
        LET r == classified.response
        IN  classified.info.shouldRetry <=>
                \/ r.status \in {502, 503}
                \/ r.status = 429 /\ HasTemporaryMarker(r.body) /\ ~HasDailyMarker(r.body)

\* What fetch comes to when the 60 s timer aborts it, and when the network
\* fails (connection refused, DNS failure, offline).
TimedOut == [kind |-> "abort"]
NetworkFailed == [kind |-> "fetchfail"]

TimeoutError == <<"Request timed out. Please try again.">>
NetworkError == <<"Network error. Check your connection.">>

\* C22: a network call that times out ends the invocation with the Timeout
\* error and a network-level failure ends it with the NetworkError error, in
\* either mode and whichever call of the attempt it is; the call is not retried,
\* no model is marked exhausted and no other model is tried.
C22_TimeoutAndNetworkFailDirectly ==
    [][\A i \in Invs, o \in {TimedOut, NetworkFailed} :
         LET st == inv[i]
             st2 == inv'[i]
         IN  (st.pc = "fetch" /\ FetchSettled(i, o)) =>
                 /\ st2.pc = "done" /\ st2.sent = 1
                 /\ st2.response =
                        Failure(IF o = TimedOut THEN TimeoutError ELSE NetworkError)
                 /\ st2.tried = st.tried
                 /\ st2.actualModel = st.actualModel
                 /\ exhaustedModels' = exhaustedModels
                 /\ stored' = stored
                 /\ markedToday' = markedToday
                 /\ storageQueue' = storageQueue]_vars

\* C22 witness: cycling through the free models, the call to the second model
\* timed out and the invocation returned the Timeout error; the second model
\* is not marked.
C22_Witness ==
    \E i \in Invs :
        /\ inv[i].pc = "done" /\ inv[i].isUsingFreeModels
        /\ inv[i].response = Failure(TimeoutError)
        /\ Len(inv[i].tried) = 2
        /\ inv[i].tried[2].model \notin exhaustedModels

\* The success responses (response.ok) without choices[0].message.content: the
\* body is not JSON, the field is missing, or it is the empty string.
MalformedResponses ==
    { o \in FetchOutcomes :
        \/ o.kind = "badjson"
        \/ o.kind = "ok" /\ (~o.hasContent \/ o.content = << >>) }

MalformedError == <<"Invalid response from API">>

\* C23: a success response without choices[0].message.content ends the
\* invocation with the malformed-response error; nothing of it is returned as a
\* summary, the call is not retried, no model is marked and no other model is
\* tried.
C23_MalformedFailsDirectly ==
    [][\A i \in Invs, o \in MalformedResponses :
         LET st == inv[i]
             st2 == inv'[i]
         IN  (st.pc = "fetch" /\ FetchSettled(i, o)) =>
                 /\ st2.pc = "done" /\ st2.sent = 1
                 /\ st2.response = Failure(MalformedError)
                 /\ st2.tried = st.tried
                 /\ exhaustedModels' = exhaustedModels
                 /\ stored' = stored]_vars

\* The attempt in progress summarises chunks[st.i], or the joined summaries.
NumChunks(st) == Len(ChunksOf(st))
Joined(st) == Join(st.summaries, Separator)
InCall(st) == st.pc \in {"fetch", "retryDelay"}

\* C24: in an attempt on a text split into n chunks, the call for chunk k + 1
\* is made when exactly the k calls before it have returned, chunk after chunk;
\* the attempt succeeds only after the n-th chunk call returned: at once if
\* n = 1, after one merge call if n > 1 and the joined summaries are at most
\* 2 * CHUNK_SIZE long, and with the summaries joined verbatim and no merge
\* call if they are longer.
C24_ChunkCallsThenMerge ==
    /\ [](\A i \in Invs :
            LET st == inv[i]
                n == NumChunks(st)
            IN  IsChunked(st) =>
                  /\ (InCall(st) /\ ~st.merging) =>
                          st.i < n /\ Len(st.summaries) = st.i
                  /\ st.pc = "chunkDelay" =>
                          st.i > 0 /\ st.i < n /\ Len(st.summaries) = st.i /\ ~st.merging
                  /\ st.pc = "mergeDelay" =>
                          st.i = n /\ Len(st.summaries) = n /\ n > 1 /\ ~st.merging
                  /\ (InCall(st) /\ st.merging) =>
                          /\ st.i = n /\ Len(st.summaries) = n /\ n > 1
                          /\ Len(Joined(st)) <= CHUNK_SIZE * 2)
    /\ [][\A i \in Invs :
            LET st == inv[i]
                st2 == inv'[i]
                n == NumChunks(st)
            IN  (IsChunked(st) /\ st.pc # "done") =>
                  /\ st2.i # st.i =>
                        \/ st2.i = st.i + 1 /\ st.pc = "fetch" /\ ~st.merging
                              /\ st2.attempts = st.attempts
                        \/ st2.i = 0 /\ (st2.pc = "done" \/ st2.attempts = st.attempts + 1)
                  /\ (st2.merging /\ ~st.merging) => st.pc = "mergeDelay"
                  /\ (st.pc = "mergeDelay" /\ st2 # st) =>
                        IF Len(Joined(st)) <= CHUNK_SIZE * 2
                        THEN st2.pc = "fetch" /\ st2.merging /\ st2.summaries = st.summaries
                        ELSE /\ st2.pc = "done" /\ st2.response.success
                             /\ st2.response.summary.text = Join(st.summaries, <<"\n", "\n">>)
                  /\ (st2.pc = "done" /\ st2.response.success) =>
                        /\ st2.response.modelInfo.chunksUsed = n
                        /\ IF n = 1
                           THEN st.pc = "fetch" /\ st.i = 0 /\ ~st.merging
                           ELSE \/ st.pc = "fetch" /\ st.merging
                                \/ st.pc = "mergeDelay"]_vars

\* C24 witness: a text of three chunks was summarised with success, the three
\* summaries joined verbatim.
C24_Witness ==
    \E i \in Invs :
        /\ inv[i].pc = "done" /\ inv[i].response.success
        /\ NumChunks(inv[i]) = 3
        /\ inv[i].response.modelInfo.chunksUsed = 3
        /\ inv[i].response.summary.text = <<"1", "\n", "\n", "1", "\n", "\n", "1">>

\* The text has no blank and no newline, so no sentence end followed by
\* whitespace either.
NoWhitespace(text) == \A k \in DOMAIN text : ~IsSpace(text[k])

\* C25 as stated: a text of length L longer than the budget B is split into
\* ceil(L / B) chunks, whatever its content.
C25_CeilChunks ==
    (SplitDone /\ Len(split.text) > split.chunkSize) =>
        Len(split.chunks) = CeilDiv(Len(split.text), split.chunkSize)

\* C25 amended: a text of length L longer than the budget B that contains no
\* whitespace is split into exactly ceil(L / B) chunks, every chunk but the
\* last having B characters.
C25_CeilChunksWithoutBreaks ==
    (SplitDone /\ Len(split.text) > split.chunkSize /\ NoWhitespace(split.text)) =>
        /\ Len(split.chunks) = CeilDiv(Len(split.text), split.chunkSize)
        /\ \A k \in 1 .. (Len(split.chunks) - 1) : Len(split.chunks[k]) = split.chunkSize

\* C25 witness: five characters without whitespace, budget 2 (the proportions
\* of 4000 characters with budget 1500), were split into three chunks.
C25_Witness ==
    /\ SplitDone
    /\ split.text = <<"a", ".", "a", "a", "a">> /\ split.chunkSize = 2
    /\ Len(split.chunks) = 3

\* The argument of the delay(...) an invocation awaits in each waiting state.
DelayMs(pc) ==
    CASE pc = "chunkDelay" -> DELAY_BETWEEN_CHUNKS
      [] pc = "mergeDelay" -> DELAY_BETWEEN_CHUNKS
      [] pc = "retryDelay" -> RETRY_BASE_DELAY
      [] pc = "switchDelay" -> 1000
      [] OTHER -> 0

\* C26: within an attempt in chunk mode, when a chunk call has returned the
\* next call (the next chunk, or the merge) is issued only after one wait of
\* DELAY_BETWEEN_CHUNKS, whatever the request: every call of the attempt but
\* its first is issued from such a wait, or is the retry of the same call.
C26_FixedDelayBetweenCalls ==
    [][\A i \in Invs :
         LET st == inv[i]
             st2 == inv'[i]
             n == NumChunks(st)
         IN  (IsChunked(st) /\ st2 # st) =>
               /\ (st.pc = "fetch" /\ st2.i = st.i + 1) =>
                     \/ st2.i < n /\ st2.pc = "chunkDelay"
                     \/ st2.i = n /\ n > 1 /\ st2.pc = "mergeDelay"
                     \/ st2.i = n /\ n = 1 /\ st2.pc = "done"
               /\ st.pc \in {"chunkDelay", "mergeDelay"} =>
                     /\ DelayMs(st.pc) = DELAY_BETWEEN_CHUNKS
                     /\ st2.attempts = st.attempts
                     /\ \/ st2.pc = "fetch" /\ st2.i = st.i
                        \/ st.pc = "mergeDelay" /\ st2.pc = "done"
                     /\ st2.pc = "fetch" => (st2.merging <=> st.pc = "mergeDelay")
               /\ (st2.pc = "fetch" /\ st.pc # "done" /\ st2.attempts = st.attempts) =>
                     \/ st.pc = "chunkDelay" /\ st2.retryCount = 0
                     \/ st.pc = "mergeDelay" /\ st2.retryCount = 0
                     \/ st.pc = "retryDelay" /\ st2.retryCount = 1
                           /\ st2.i = st.i /\ st2.merging = st.merging]_vars

\* C26 witness: the merge call of an attempt on two chunks is outstanding,
\* after the wait between the chunks and the wait before the merge.
C26_Witness ==
    \E i \in Invs :
        /\ inv[i].pc = "fetch" /\ inv[i].merging /\ inv[i].retryCount = 0
        /\ NumChunks(inv[i]) = 2 /\ Len(inv[i].summaries) = 2

\* C27: an invocation has at most one network call outstanding at any moment,
\* a call is issued only when none is outstanding, and the attempt with the
\* next model starts only when the attempt before it has failed: its call has
\* settled, its model has been marked and the switch delay is awaited.
C27_OneCallAtATime ==
    /\ [](\A i \in Invs :
            /\ inv[i].outstanding \in {0, 1}
            /\ inv[i].outstanding = 1 <=> inv[i].pc = "fetch")
    /\ [][\A i \in Invs :
            LET st == inv[i]
                st2 == inv'[i]
            IN  /\ st2.outstanding > st.outstanding => st.outstanding = 0
                /\ (st.attempts >= 1 /\ st2.attempts = st.attempts + 1) =>
                      /\ st.outstanding = 0
                      /\ st.pc = "switchDelay"
                      /\ LastTried(st).model # st.actualModel
                      /\ st2.tried = Append(st.tried, [model |-> st.actualModel, day |-> utcDay])
                /\ (st.pc = "fetch" /\ st2.pc = "saveWait") =>
                      st2.outstanding = 0 /\ st.actualModel \in exhaustedModels']_vars

\* C27 witness: the second model's attempt has its second chunk call
\* outstanding, and nothing else.
C27_Witness ==
    \E i \in Invs :
        /\ inv[i].pc = "fetch" /\ inv[i].outstanding = 1
        /\ inv[i].attempts = 2 /\ inv[i].i = 1
        /\ inv[i].actualModel = FREE_MODELS[2]

\* Every character of `text` is one that `model` returns, or a newline put
\* between summaries when they are joined.
OnlyFrom(text, model) ==
    \A k \in DOMAIN text : text[k] \in {ModelDigit(model), "\n"}

\* The locals of summarizeWithChunking are live: the attempt is in progress.
InAttempt(st) == st.pc \in {"fetch", "retryDelay", "chunkDelay", "mergeDelay"}

\* C28: every attempt starts with no chunk summaries and at the first chunk;
\* the summaries held while an attempt is in progress all come from the model
\* of that attempt, and so does the summary of a Success, which names that
\* model as the one used.
C28_NoMixingAcrossModels ==
    /\ [](\A i \in Invs :
            LET st == inv[i]
            IN  /\ InAttempt(st) =>
                      \A k \in DOMAIN st.summaries : OnlyFrom(st.summaries[k], st.actualModel)
                /\ (st.pc = "done" /\ st.response.success) =>
                      /\ st.response.modelInfo.id = LastTried(st).model
                      /\ OnlyFrom(st.response.summary.text, st.response.modelInfo.id))
    /\ [][\A i \in Invs :
            LET st == inv[i]
                st2 == inv'[i]
            IN  (st2.attempts = st.attempts + 1) =>
                    /\ st2.summaries = << >> /\ st2.i = 0 /\ ~st2.merging
                    /\ st2.pc = "fetch" /\ st2.retryCount = 0]_vars

\* C28 witness: the first model failed after it had returned chunk summaries,
\* and the second model's fresh pass over the three chunks gave the Success.
C28_Witness ==
    \E i \in Invs :
        /\ inv[i].pc = "done" /\ inv[i].response.success
        /\ Len(inv[i].tried) = 2
        /\ inv[i].response.modelInfo.id = FREE_MODELS[2]
        /\ inv[i].response.modelInfo.chunksUsed = 3
        /\ inv[i].response.summary.text = <<"2", "\n", "\n", "2", "2", "\n", "\n", "2">>

\* C29: when the request carries an explicit model, in the free catalogue or
\* not, every attempt of the invocation uses that model, and a Success reports
\* it as the model used.
C29_PinnedModelNeverSwitched ==
    \A i \in Invs :
        LET st == inv[i]
        IN  st.request.customCode # Absent =>
              /\ \A k \in DOMAIN st.tried : st.tried[k].model = st.request.customCode
              /\ st.pc \notin {"idle", "loadWait", "done"} =>
                      st.actualModel = st.request.customCode
              /\ (st.pc = "done" /\ st.response.success) =>
                      st.response.modelInfo.id = st.request.customCode

\* FREE_MODELS without the models of `exhausted`, in catalogue order.
AvailableModels(exhausted) == SelectSeq(FREE_MODELS, LAMBDA m : m \notin exhausted)

\* C30: the reply to getModelStatus, whenever it is asked (before the startup
\* load has completed included), lists as availableModels the catalogue entries
\* that have not been marked exhausted on the current UTC day, in catalogue
\* order, and gives the catalogue size as totalFreeModels.
C30_SnapshotShowsToday ==
    statusReply.asked =>
        /\ statusReply.reply.totalFreeModels = Len(FREE_MODELS)
        /\ statusReply.reply.availableModels = AvailableModels(markedToday)

\* A display string that is there and not empty.
NonEmptyText(v) == v # Absent /\ v # << >>

\* C31: getModelInfo returns, for every non-empty identifier, a record whose
\* id is the identifier and whose name and provider are non-empty texts.
C31_InfoAlwaysUsable ==
    info.pc = "returned" =>
        /\ info.result.id = info.modelId
        /\ NonEmptyText(info.result.name)
        /\ NonEmptyText(info.result.provider)

\* The text of the request is no longer than the chunk budget.
FitsBudget(st) == Len(st.request.text) <= CHUNK_SIZE

\* C32: in every attempt on a text no longer than CHUNK_SIZE the only call is
\* the one on the whole text: no chunk summaries are collected, no chunk or
\* merge wait occurs, and its return is the Success, with chunk count 1.  On a
\* longer text every attempt takes the chunk path: the return of its first
\* call is kept as the summary of chunk 1 and the Success has the number of
\* chunks of the split.  The request, and with it the mode, is the same from
\* the first attempt to the response.
C32_ModeByLength ==
    /\ [](\A i \in Invs :
            LET st == inv[i]
            IN  /\ (InAttempt(st) /\ FitsBudget(st)) =>
                      /\ st.pc \in {"fetch", "retryDelay"}
                      /\ st.i = 0 /\ st.summaries = << >> /\ ~st.merging
                /\ (st.pc = "done" /\ st.response.success) =>
                      st.response.modelInfo.chunksUsed =
                          IF FitsBudget(st) THEN 1 ELSE NumChunks(st))
    /\ [][\A i \in Invs :
            LET st == inv[i]
                st2 == inv'[i]
            IN  /\ st.pc \notin {"idle", "done"} => st2.request = st.request
                /\ \A o \in FetchOutcomes :
                      (st.pc = "fetch" /\ FetchSettled(i, o)
                         /\ makeApiRequest(o, st.actualModel, st.retryCount).kind = "return") =>
                          IF FitsBudget(st)
                          THEN st2.pc = "done" /\ st2.response.success
                          ELSE \/ st.merging
                               \/ st2.pc = "done" /\ NumChunks(st) = 1
                               \/ /\ st2.pc \in {"chunkDelay", "mergeDelay"}
                                  /\ Len(st2.summaries) = Len(st.summaries) + 1]_vars

\* C32 witness: on a short text the second model's single call gave the
\* Success, with chunk count 1.
C32_Witness ==
    \E i \in Invs :
        /\ inv[i].pc = "done" /\ inv[i].response.success
        /\ FitsBudget(inv[i]) /\ Len(inv[i].tried) = 2
        /\ inv[i].response.modelInfo.chunksUsed = 1

\* What the load of invocation st read from storage is today's set and holds
\* the whole catalogue.
AllExhaustedToday(st) ==
    st.loaded.hasModels /\ st.loaded.date = utcDay /\ st.loaded.models = FreeModelSet

\* C33: a valid request without an explicit model that finds every catalogue
\* model in today's set ends with the all-models-exhausted Failure of the
\* entry; no network call is issued and the set is as it was loaded, in memory
\* and in storage.
C33_AllExhaustedAtEntry ==
    [][\A i \in Invs :
         LET st == inv[i]
             st2 == inv'[i]
         IN  (st.pc = "loadWait" /\ LoadCallback(i)
                /\ ValidRequest(st.request) /\ st.request.customCode = Absent
                /\ AllExhaustedToday(st)) =>
                 /\ st2.pc = "done" /\ st2.sent = 1
                 /\ st2.response = Failure(AllExhaustedAtEntry)
                 /\ st2.tried = << >> /\ st2.outstanding = 0
                 /\ exhaustedModels' = FreeModelSet
                 /\ stored' = stored
                 /\ markedToday' = markedToday]_vars

\* C33 witness: the invocation ended at its entry with the all-models-exhausted
\* Failure, no attempt made, the five models still in the set.
C33_Witness ==
    \E i \in Invs :
        /\ inv[i].pc = "done" /\ inv[i].request.customCode = Absent
        /\ inv[i].response = Failure(AllExhaustedAtEntry)
        /\ inv[i].tried = << >>
        /\ exhaustedModels = FreeModelSet /\ stored.models = FreeModelSet

FallThroughError == <<"Failed to summarize after trying all available models.">>

\* C34: no invocation sends the fall-through response of lines 318-322: the
\* attempt loop is always left through the Success, the all-models-exhausted
\* Failure or an error.
C34_NoFallThrough ==
    \A i \in Invs : inv[i].response # Failure(FallThroughError)

\* C35: the exhaustion set, in memory and in storage, holds catalogue models
\* only: a model outside the catalogue is never marked, whatever it answers.
C35_SetWithinCatalogue ==
    /\ exhaustedModels \subseteq FreeModelSet
    /\ stored.models \subseteq FreeModelSet
    /\ markedToday \subseteq FreeModelSet

\* C35 witness: an invocation with a model outside the catalogue got a 429 and
\* ended with a Failure; the set, in memory and in storage, holds what storage
\* held before, catalogue models only.
C35_Witness ==
    \E i \in Invs :
        /\ inv[i].pc = "done" /\ inv[i].request.customCode = CustomModel
        /\ inv[i].response = Failure(<<"Rate limit hit">>)
        /\ exhaustedModels = {FREE_MODELS[1]} /\ stored.models = {FREE_MODELS[1]}

\* C36: a model marked exhausted on the current UTC day that is in the
\* in-memory set stays there, and one that is in storage under today's stamp
\* stays there under that stamp, through every step that does not change the
\* day, whichever day the invocation started on.
C36_MarkedStaysToday ==
    [][utcDay' = utcDay =>
         \A m \in markedToday :
             /\ m \in exhaustedModels => m \in exhaustedModels'
             /\ (stored.hasModels /\ stored.date = utcDay /\ m \in stored.models) =>
                    (stored'.hasModels /\ stored'.date = utcDay /\ m \in stored'.models)]_vars

\* C37: the summary of every Success is a text string and is not empty, in
\* full mode and in chunk mode, whatever content the model returned.
C37_SummaryNonEmptyText ==
    \A i \in Invs :
        (inv[i].pc = "done" /\ inv[i].response.success) =>
            /\ inv[i].response.summary.isText
            /\ inv[i].response.summary.text # << >>

IsInfix(part, whole) == IndexOfSeq(whole, part) # 0 \/ part = << >>

\* C38: the messages of every chunk-summary request and every merge request
\* together contain the complete text handed to summarizeSingleChunk,
\* respectively combineSummaries, as one unbroken piece.
C38_BodyCarriesWholeText ==
    outbound.pc = "sent" =>
        \/ IsInfix(outbound.text, outbound.messages.system)
        \/ IsInfix(outbound.text, outbound.messages.user)
        \/ IsInfix(outbound.text, outbound.messages.system \o outbound.messages.user)

\* The number of chunks n of the claim: 1 in full mode.
ChunkCount(st) == IF IsChunked(st) THEN NumChunks(st) ELSE 1
\* Attempts the loop of handleSummarize may make.
AttemptLimit(st) == IF CustomMode(st.request) THEN 1 ELSE Len(FREE_MODELS)
\* Network calls one attempt may make: n chunk calls and a merge call, each
\* made at most 1 + MAX_RETRIES times.
CallsPerAttempt(st) == (ChunkCount(st) + 1) * (1 + MAX_RETRIES)

\* C39: an invocation makes at most 5 attempts when cycling is enabled and 1
\* for an explicit custom model, and no attempt issues more than (n + 1) x 2
\* network calls; so the calls of the attempts made so far, the one under way
\* included, never exceed 5 x (n + 1) x 2, respectively (n + 1) x 2.
C39_CallsBounded ==
    \A i \in Invs :
        LET st == inv[i]
        IN  st.calls > 0 =>
              /\ Len(FREE_MODELS) = 5 /\ 1 + MAX_RETRIES = 2
              /\ st.attempts \in 1 .. AttemptLimit(st)
              /\ st.calls <= CallsPerAttempt(st) /\ st.calls < MaxCalls
              /\ (st.attempts - 1) * CallsPerAttempt(st) + st.calls
                     <= AttemptLimit(st) * CallsPerAttempt(st)

\* The fifth attempt of a cycling invocation on a text of two chunks has
\* issued its sixth call: both chunk calls and the merge call were retried.
C39_Witness ==
    \E i \in Invs :
        /\ inv[i].pc = "fetch" /\ ~CustomMode(inv[i].request)
        /\ ChunkCount(inv[i]) = 2 /\ inv[i].merging
        /\ inv[i].attempts = 5
        /\ inv[i].calls = 6

RunsInTry(p) == { r \in Runs : p.runs[r] \in InTry }
InFlight(p) == { r \in Runs : p.runs[r] = "summarize" }

\* C40: in an open popup at most one run of handleSummarize is between
\* `isProcessing = true` and its finally, so at most one summarize request is
\* in flight, and isProcessing is true exactly then; while isProcessing is
\* true no step starts a run; and every step in which a run leaves the try
\* block, by success or by any error, leaves isProcessing false and the
\* button enabled.
C40_OneRequestPerPopup ==
    /\ [](popup.pc = "open" =>
            /\ Cardinality(RunsInTry(popup)) <= 1
            /\ Cardinality(InFlight(popup)) <= 1
            /\ popup.isProcessing <=> RunsInTry(popup) # {}
            /\ popup.disabled <=> popup.isProcessing)
    /\ [][(popup.pc = "open" /\ popup'.pc = "open") =>
            \A r \in Runs :
               /\ (popup.runs[r] \notin InTry /\ popup'.runs[r] \in InTry) =>
                      ~popup.isProcessing
               /\ (popup.runs[r] \in InTry /\ popup'.runs[r] \notin InTry) =>
                      (~popup'.isProcessing /\ ~popup'.disabled)]_vars

\* A run has ended in an error and a later one has its request in flight
\* while the first still awaits updateModelStatus.
C40_Witness ==
    /\ popup.pc = "open"
    /\ popup.isProcessing /\ popup.errorMessage # ""
    /\ \E r, q \in Runs : popup.runs[r] = "summarize" /\ popup.runs[q] = "status"

=============================================================================
